---- MODULE Spec2Model ----
(***************************************************************************)
(* Model of the flight guidance character system of the simviator service  *)
(* (services/simviator/flight_guidance_character.py).                      *)
(*                                                                         *)
(* Time.  The code stores wall-clock timestamps (last_guidance_time,       *)
(* last_spoke) and only ever uses the difference now - timestamp.  The     *)
(* model stores that difference (an age in seconds) and lets the Tick      *)
(* action add to every age.  Ages saturate at AgeCap, the largest          *)
(* threshold any comparison in the modelled code uses.  What the status    *)
(* query reports of a timestamp is whether it is set.                      *)
(*                                                                         *)
(* Randomness.  Every random.random() comparison is a boolean input and    *)
(* every random.choice an index into the list it chooses from.             *)
(***************************************************************************)
EXTENDS Integers, Sequences, FiniteSets, TLC

VARIABLES
    characters,         \* name -> [last_spoke, spoke_count_session]
    guidance_context,   \* [traffic_density, emergency_situation, complexity_level]
    conversation_flow,  \* guidance_context.conversation_flow
    last_guidance_age,  \* now - last_guidance_time
    guidance_callbacks, \* self.guidance_callbacks: what each subscriber does when called
    pc,                 \* position of process_flight_situation:
                        \* "idle" | "dispatching" | "sleeping"
    responding,         \* responding_characters of the cycle in flight
    emitted,            \* how many of them have emitted so far
    situation_type,     \* situation_analysis['situation_type'] of the cycle in flight
    awaiting,           \* the callback the cycle in flight is suspended in
    override,           \* the emergency or force-speak call suspended in a callback
    status,             \* what get_character_status returned, if no call was made since
    probe,              \* a function of the module applied on its own: input and result
    service_states,     \* ServiceHealthMonitor.service_states
    running,            \* the services whose process runs
    monitor,            \* ServiceHealthMonitor: monitoring, and where its loop is
    event_history,      \* EventCoordinator.event_history
    published,          \* how many events publish_event was called with
    processes,          \* ServiceLauncher.processes: the names, in the order of the dict
    launcher,           \* ServiceLauncher: running, where monitor_services is, and
                        \* how often it restarted each service
    delivered,          \* the emissions handed to _output_guidance, in order
    emit_age,           \* name -> now - time of the last delivery attributed to it
    lastOp              \* the last call made, what it drew and what it did

vars == <<characters, guidance_context, conversation_flow, last_guidance_age,
          guidance_callbacks, pc, responding, emitted, situation_type,
          awaiting, override, status, probe,
          service_states, running, monitor,
          event_history, published, processes, launcher,
          delivered, emit_age, lastOp>>

\* the state of the event coordinator and of the launcher
platform == <<event_history, published, processes, launcher>>

\* the state of the orchestrator, of the processes and of the launcher
orchestration == <<service_states, running, monitor, platform>>

(***************************************************************************)
(* Bounds of the model                                                     *)
(***************************************************************************)
\* calls are made only while the subscribers have received fewer emissions
\* than this (a two-speaker cycle started below the bound may end one above it)
MaxDeliveries == 3

\* how many subscribers register
MaxCallbacks == 2

\* with subscribers registered, calls are made only while fewer emissions than
\* this have been handed to _output_guidance
MaxDispatches == 2

\* the counters of the health monitor count up to this
MaxChecks == 4

\* the transcription functions are called with the numbers from -MaxNegative
\* up to one of the bounds below (a frequency in thousandths up to
\* MaxNegative, a visibility in hundredths from -MaxVisibility)
MaxNegative == 20
MaxAltitude == 20000
MaxHeading == 740
MaxSpeed == 600
MaxVisibility == 1050

\* the altitude differences of a traffic call go from -MaxAltitudeDiff to
\* MaxAltitudeDiff
MaxAltitudeDiff == 600

\* the snapshots handed to the context update and the analyzer on their own
\* have a traffic_count from 0 to MaxTraffic and a weather_severity from 0 to
\* MaxWeather
MaxTraffic == 8
MaxWeather == 7

\* publish_event is called while fewer events than this were published
MaxEvents == 103

\* the launcher's restarts of a service are counted up to this
MaxRestarts == 2

(***************************************************************************)
(* Program constants                                                       *)
(***************************************************************************)
NoTime == -1                      \* last_spoke: Optional[datetime] = None
GuidanceCooldownSeconds == 3      \* self.guidance_cooldown_seconds = 3.0
CharacterRestSeconds == 300       \* minutes_since_spoke < 5
PacingDelay == 2                  \* asyncio.sleep(2.0)
ProfessionalThreshold == 8        \* professional_level >= 8
HighUrgency == 7                  \* urgency >= 7
ActivityWindowSeconds == 1800     \* minutes_since < 30
AgeCap == ActivityWindowSeconds   \* ages saturate at the largest threshold compared

\* self.characters, in insertion order (dict order is what .items() yields)
CharOrder == <<"dublin_control", "approach_control", "captain_murphy", "sarah_spotter">>
Characters == {CharOrder[i] : i \in 1..Len(CharOrder)}

professional_level(c) ==
    CASE c = "dublin_control"   -> 9
      [] c = "approach_control" -> 8
      [] c = "captain_murphy"   -> 10
      [] c = "sarah_spotter"    -> 6

\* length of the history at which the long session (SpecHistory) stops
LongSession == 101

\* waits between two calls: the shortest time after which the gate can open
\* outside an emergency (complexity_level 6), and a time past every threshold
\* the program compares an elapsed time with
ShortWait == 15
LongWait == 1800

\* flight snapshots handed to process_flight_situation
Snapshot(traffic, weather, emergency, phase, aircraft) ==
    [traffic_count |-> traffic, weather_severity |-> weather, emergency |-> emergency,
     phase |-> phase, aircraft_type |-> aircraft]

Snapshots ==
    { Snapshot(0, 0, FALSE, "taxi",    "B737"),    \* routine, no preference
      Snapshot(0, 0, FALSE, "cruise",  "C172"),    \* routine, rare aircraft
      Snapshot(6, 6, FALSE, "takeoff", "B737"),    \* traffic advisory
      Snapshot(0, 0, TRUE,  "cruise",  "B737"),    \* emergency in light traffic
      Snapshot(6, 6, TRUE,  "takeoff", "B737") }   \* emergency, traffic, weather

\* names a caller may pass to force_character_guidance
ForceNames == {"sarah_spotter", "nobody"}

(***************************************************************************)
(* Helpers                                                                 *)
(***************************************************************************)
Min(a, b) == IF a < b THEN a ELSE b
Max(a, b) == IF a > b THEN a ELSE b

\* the elements of s that satisfy Test, in order (a list comprehension)
RECURSIVE Filter(_, _)
Filter(s, keep) ==
    IF s = <<>> THEN <<>>
    ELSE IF Head(s) \in keep THEN <<Head(s)>> \o Filter(Tail(s), keep)
    ELSE Filter(Tail(s), keep)

SeqRange(s) == {s[i] : i \in 1..Len(s)}

\* an age after d more seconds
Later(age, d) == IF age = NoTime THEN NoTime ELSE Min(age + d, AgeCap)

(***************************************************************************)
(* _update_guidance_context                                                *)
(***************************************************************************)
\* mutant: the traffic term is not capped at 3
M_Complexity_TrafficUncapped(fd) ==
    Min(1 + fd.traffic_count \div 2
          + (IF fd.emergency THEN 4 ELSE 0)
          + (IF fd.weather_severity > 5 THEN 2 ELSE 0), 10)

Complexity(fd) ==
    Min(1 + Min(fd.traffic_count \div 2, 3)
          + (IF fd.emergency THEN 4 ELSE 0)
          + (IF fd.weather_severity > 5 THEN 2 ELSE 0), 10)

UpdateGuidanceContext(fd) ==
    [traffic_density     |-> fd.traffic_count,
     emergency_situation |-> fd.emergency,
     complexity_level    |-> Complexity(fd)]

(***************************************************************************)
(* _should_provide_guidance                                                *)
(***************************************************************************)
\* mutant: the complexity factor is left out of the effective cooldown
M_EffectiveCooldown_BaseOnly(ctx) == GuidanceCooldownSeconds

EffectiveCooldown(ctx) ==
    GuidanceCooldownSeconds * Max(1, 11 - ctx.complexity_level)

\* mutant: the random factor is left out of the gate
M_GateOutcome_NoRandomFactor(ctx, elapsed, gate_draw) ==
    IF elapsed < GuidanceCooldownSeconds THEN "cooldown"
    ELSE IF elapsed < GuidanceCooldownSeconds * Max(1, 11 - ctx.complexity_level)
        THEN "cooldown"
    ELSE "pass"

\* "cooldown": suppressed by a cooldown test; "random": suppressed by the
\* random factor; "pass": guidance is to be provided
GateOutcome(ctx, elapsed, gate_draw) ==
    IF elapsed < GuidanceCooldownSeconds THEN "cooldown"
    ELSE IF elapsed < EffectiveCooldown(ctx) THEN "cooldown"
    ELSE IF ctx.emergency_situation THEN "pass"
    ELSE IF gate_draw THEN "pass"
    ELSE "random"

\* the random factor is drawn only when both cooldown tests have passed and
\* the context is no emergency; FALSE stands for "not drawn"
GateDraws(ctx, elapsed) ==
    IF GateOutcome(ctx, elapsed, TRUE) = "cooldown" \/ ctx.emergency_situation
    THEN {FALSE} ELSE BOOLEAN

(***************************************************************************)
(* _analyze_situation                                                      *)
(***************************************************************************)
\* mutant: three aircraft already count as a traffic concern
M_TrafficConcern_Inclusive(ctx) == ctx.traffic_density >= 3

\* self.guidance_context.traffic_density > 3
TrafficConcern(ctx) == ctx.traffic_density > 3

\* mutant: a traffic concern raises the urgency to the selector's threshold
M_RaisedUrgency_High(urgency) == Max(HighUrgency, urgency)

\* max(3, situation_analysis['urgency_level'])
RaisedUrgency(urgency) == Max(3, urgency)

AnalyzeSituation(ctx, fd) ==
    LET traffic == TrafficConcern(ctx)
        p1 == IF traffic THEN <<"dublin_control", "approach_control">> ELSE <<>>
        p2 == IF fd.phase \in {"takeoff", "landing"}
                  THEN <<"captain_murphy", "approach_control">>
              ELSE IF fd.phase = "cruise"
                  THEN <<"captain_murphy", "sarah_spotter">>
              ELSE <<>>
        p3 == IF fd.aircraft_type # "" /\ fd.aircraft_type \notin {"B737", "A320", "B777"}
                  THEN <<"sarah_spotter">> ELSE <<>>
    IN  [situation_type        |-> IF traffic THEN "traffic_advisory" ELSE "routine",
         urgency_level         |-> IF traffic THEN RaisedUrgency(1) ELSE 1,
         character_preferences |-> p1 \o p2 \o p3]

(***************************************************************************)
(* _select_responding_characters                                           *)
(***************************************************************************)
\* mutant: the rest time is compared in seconds instead of minutes
M_IsRested_Seconds(last_spoke) == last_spoke = NoTime \/ last_spoke >= 5

\* "rested enough": never spoke, or spoke at least 5 minutes ago
IsRested(last_spoke) ==
    last_spoke = NoTime \/ last_spoke >= CharacterRestSeconds

\* the characters that get a response_likelihood draw
RestedCharacters(chars) == {c \in Characters : IsRested(chars[c].last_spoke)}

\* mutant: the first speaker is not taken out of the candidates
M_SecondCandidates_NoFilter(preferred, first) == preferred

\* candidates for the second speaker
SecondCandidates(preferred, first) ==
    Filter(preferred, SeqRange(preferred) \ {first})

\* mutant: the preference list is not applied to the available characters
M_Preferred_AllAvailable(wanted, available) == available

\* preferred_characters: the available characters of the preference list, or
\* every available character when none of them is in the list
Preferred(wanted, available) == IF wanted = <<>> THEN available ELSE wanted

\* mutant: every preferred character counts as a professional
M_ProfessionalChars_Any(preferred) == preferred

\* professional_chars
ProfessionalChars(preferred) ==
    Filter(preferred, {c \in Characters : professional_level(c) >= ProfessionalThreshold})

\* Every result the selector can produce, given the characters that pass
\* their response_likelihood draw: [raised, selected].
SelectionOutcomes(analysis, chars, passes) ==
    LET available == Filter(CharOrder,
                            {c \in Characters : IsRested(chars[c].last_spoke) /\ c \in passes})
        wanted    == Filter(analysis.character_preferences, SeqRange(available))
        preferred == Preferred(wanted, available)
        professional_chars == ProfessionalChars(preferred)
    IN  IF available = <<>> THEN {[raised |-> FALSE, selected |-> <<>>]}
        ELSE IF analysis.urgency_level >= HighUrgency /\ professional_chars # <<>>
            THEN {[raised |-> FALSE, selected |-> <<professional_chars[i]>>] :
                      i \in 1..Len(professional_chars)}
        ELSE UNION {
            LET first == preferred[i] IN
              \* second speaker not drawn, or not applicable
              {[raised |-> FALSE, selected |-> <<first>>]}
              \cup
              \* 20% draw succeeded
              (IF analysis.situation_type = "routine" /\ Len(preferred) > 1
               THEN LET rest == SecondCandidates(preferred, first) IN
                    IF rest = <<>>
                    THEN {[raised |-> TRUE, selected |-> <<>>]}  \* random.choice([])
                    ELSE {[raised |-> FALSE, selected |-> <<first, rest[j]>>] :
                              j \in 1..Len(rest)}
               ELSE {})
            : i \in 1..Len(preferred)}

(***************************************************************************)
(* _output_guidance: the loop over the registered callbacks                 *)
(***************************************************************************)
\* What a registered callback does when it is invoked:
\*   "returns"   completes (a plain function, or a coroutine that never waits)
\*   "raises"    raises an Exception
\*   "exits"     raises a BaseException that is no Exception
\*   "suspends"  a coroutine function that waits, then completes
\*   "hangs"     a coroutine function that never completes
CallbackKinds == {"returns", "raises", "exits", "suspends", "hangs"}

\* mutant: the call of a callback is not wrapped in try/except
M_Caught_Nothing(kind) == FALSE

\* except Exception: what the handler around one callback catches
Caught(kind) == kind = "raises"

\* The loop from callback k on: the callbacks it invokes and how it stands
\* when control leaves it ("done": the loop ended; "awaiting": suspended in
\* callback `at`; "propagated": callback `at` raised past the handler).
RECURSIVE DispatchFrom(_, _)
DispatchFrom(cbs, k) ==
    IF k > Len(cbs) THEN [invoked |-> {}, how |-> "done", at |-> 0]
    ELSE IF cbs[k] \in {"suspends", "hangs"}
        THEN [invoked |-> {k}, how |-> "awaiting", at |-> k]
    ELSE IF cbs[k] = "returns" \/ Caught(cbs[k])
        THEN [DispatchFrom(cbs, k + 1) EXCEPT !.invoked = @ \cup {k}]
    ELSE [invoked |-> {k}, how |-> "propagated", at |-> k]

\* the entry of the dispatch log for an emission of c
Delivery(c, path, run) ==
    [character |-> c, via |-> path, invoked |-> run.invoked,
     dispatched |-> run.how = "done"]

\* the entry once the callback it was suspended in has completed
Resumed(entry, run) ==
    [entry EXCEPT !.invoked = @ \cup run.invoked, !.dispatched = run.how = "done"]

\* how a call stands after it handed an emission to _output_guidance
DispatchOutcome(run) ==
    CASE run.how = "done"     -> "emitted"
      [] run.how = "awaiting" -> "dispatching"
      [] OTHER                -> "propagated"

(***************************************************************************)
(* State                                                                   *)
(***************************************************************************)
\* what a call did: the operation, its argument, how it ended, the gate's
\* random draw (FALSE when none was drawn) and the characters it selected
DoneWith(op, arg, outcome, gate_draw, selected) ==
    [op |-> op, arg |-> arg, outcome |-> outcome, gate_draw |-> gate_draw,
     selected |-> selected]

Done(op, outcome, gate_draw, selected) == DoneWith(op, "none", outcome, gate_draw, selected)

\* no callback is being awaited
NoAwait == [callback |-> 0, delivery |-> 0]
NoOverride == [path |-> "none", character |-> "none", callback |-> 0, delivery |-> 0]

InitSystem ==
    /\ characters = [c \in Characters |-> [last_spoke |-> NoTime, spoke_count_session |-> 0]]
    /\ guidance_context = [traffic_density |-> 0, emergency_situation |-> FALSE,
                           complexity_level |-> 1]
    /\ conversation_flow = <<>>
    /\ last_guidance_age = 0
    /\ guidance_callbacks = <<>>
    /\ pc = "idle"
    /\ responding = <<>>
    /\ emitted = 0
    /\ situation_type = "none"
    /\ awaiting = NoAwait
    /\ override = NoOverride
    /\ status = <<>>
    /\ service_states =
           [s \in {"simviator", "bot_control"} |->
               [status |-> "unknown", checked |-> FALSE, succeeded |-> FALSE,
                consecutive_failures |-> 0, total_checks |-> 0, total_failures |-> 0]]
    /\ running = {}
    /\ monitor = [monitoring |-> FALSE, at |-> 0]
    /\ event_history = <<>>
    /\ published = 0
    /\ processes = <<>>
    /\ launcher = [running |-> TRUE, stage |-> "created", pass |-> <<>>,
                   restarts |-> [s \in {"orchestrator", "simviator", "bot_control"} |-> 0]]
    /\ delivered = <<>>
    /\ emit_age = [c \in Characters |-> NoTime]
    /\ lastOp = Done("init", "none", FALSE, <<>>)

Init == InitSystem /\ probe = <<>>

\* every stored timestamp, d seconds later
Aged(chars, d) == [c \in Characters |-> [chars[c] EXCEPT !.last_spoke = Later(@, d)]]
AgedEmit(ages, d) == [c \in Characters |-> Later(ages[c], d)]

\* mutant: the emission is timed but not counted
M_Spoke_NotCounted(chars, c) == [chars EXCEPT ![c].last_spoke = 0]

\* character.last_spoke = datetime.now(); character.spoke_count_session += 1
Spoke(chars, c) ==
    [chars EXCEPT ![c] = [last_spoke |-> 0,
                          spoke_count_session |-> chars[c].spoke_count_session + 1]]

\* the entry appended to conversation_flow
HistoryEntry(c, stype) == [character |-> c, situation |-> stype]

\* process_flight_situation returns, or is left by an exception: its locals go
ReturnFromCycle ==
    /\ pc' = "idle"
    /\ responding' = <<>>
    /\ emitted' = 0
    /\ situation_type' = "none"
    /\ awaiting' = NoAwait

\* The body of the for loop of process_flight_situation for speaker k of sel
\* from the point where control leaves the callback loop as `run` says, d
\* seconds after the current state: the rest of _output_guidance, the
\* character state, the history, the pacing sleep.  (i: the emission's place
\* in the dispatch log.)
AfterDispatch(sel, k, stype, d, run, i) ==
    CASE run.how = "done" ->
            /\ last_guidance_age' = 0
            /\ characters' = Spoke(Aged(characters, d), sel[k])
            /\ conversation_flow' = Append(conversation_flow, HistoryEntry(sel[k], stype))
            /\ IF Len(sel) > 1
               THEN /\ pc' = "sleeping"
                    /\ responding' = sel
                    /\ emitted' = k
                    /\ situation_type' = stype
                    /\ awaiting' = NoAwait
               ELSE ReturnFromCycle
      [] run.how = "awaiting" ->
            /\ last_guidance_age' = Later(last_guidance_age, d)
            /\ characters' = Aged(characters, d)
            /\ UNCHANGED conversation_flow
            /\ pc' = "dispatching"
            /\ responding' = sel
            /\ emitted' = k - 1
            /\ situation_type' = stype
            /\ awaiting' = [callback |-> run.at, delivery |-> i]
      [] OTHER ->
            /\ last_guidance_age' = Later(last_guidance_age, d)
            /\ characters' = Aged(characters, d)
            /\ UNCHANGED conversation_flow
            /\ ReturnFromCycle

\* the body of the for loop of process_flight_situation for speaker k of sel,
\* d seconds after the current state, up to its next suspension
EmitInCycle(sel, k, stype, d) ==
    LET run == DispatchFrom(guidance_callbacks, 1) IN
    /\ delivered' = Append(delivered, Delivery(sel[k], "cycle", run))
    /\ emit_age' = [AgedEmit(emit_age, d) EXCEPT ![sel[k]] = 0]
    /\ AfterDispatch(sel, k, stype, d, run, Len(delivered) + 1)

(***************************************************************************)
(* Actions                                                                 *)
(***************************************************************************)
\* time passes between two calls
Tick(d) ==
    /\ UNCHANGED orchestration
    /\ pc = "idle"
    /\ characters' = Aged(characters, d)
    /\ emit_age' = AgedEmit(emit_age, d)
    /\ last_guidance_age' = Later(last_guidance_age, d)
    /\ lastOp' = Done("tick", "none", FALSE, <<>>)
    /\ UNCHANGED <<guidance_context, conversation_flow, guidance_callbacks, pc,
                   responding, emitted, situation_type, awaiting, override, status,
                   probe, delivered>>

\* add_guidance_callback
AddGuidanceCallback(kind) ==
    /\ UNCHANGED orchestration
    /\ guidance_callbacks' = Append(guidance_callbacks, kind)
    /\ lastOp' = Done("register", "none", FALSE, <<>>)
    /\ UNCHANGED <<characters, guidance_context, conversation_flow, last_guidance_age,
                   pc, responding, emitted, situation_type, awaiting, override, status,
                   probe, delivered, emit_age>>

\* mutant: the monitor starts the processing of a snapshot without awaiting it
M_MonitorAwaitsCycle_FireAndForget == TRUE

\* The flight monitor awaits process_flight_data, which awaits
\* process_flight_situation: it hands over a snapshot only when it is not
\* inside that await.
MonitorAwaitsCycle == pc = "idle"

\* process_flight_situation, from its entry to its first suspension
\* (a callback that waits, the pacing sleep) or its return
\* (likely: the characters whose response_likelihood draw can succeed)
ProcessFlightSituation(fd, likely) ==
    /\ UNCHANGED orchestration
    /\ MonitorAwaitsCycle
    /\ LET ctx  == UpdateGuidanceContext(fd)
           analysis == AnalyzeSituation(ctx, fd)
       IN
       /\ guidance_context' = ctx
       /\ status' = <<>>
       /\ UNCHANGED <<guidance_callbacks, override, probe>>
       /\ \E gate_draw \in GateDraws(ctx, last_guidance_age) :
          IF GateOutcome(ctx, last_guidance_age, gate_draw) # "pass"
          THEN /\ lastOp' = Done("process", "gated", gate_draw, <<>>)
               /\ UNCHANGED <<characters, conversation_flow, last_guidance_age, pc,
                              responding, emitted, situation_type, awaiting,
                              delivered, emit_age>>
          ELSE \E passes \in SUBSET (RestedCharacters(characters) \cap likely) :
               \E out \in SelectionOutcomes(analysis, characters, passes) :
               IF out.raised \/ out.selected = <<>>
               THEN /\ lastOp' = Done("process", IF out.raised THEN "raised" ELSE "empty",
                                      gate_draw, <<>>)
                    /\ UNCHANGED <<characters, conversation_flow, last_guidance_age, pc,
                                   responding, emitted, situation_type, awaiting,
                                   delivered, emit_age>>
               ELSE /\ lastOp' = Done("process",
                                      DispatchOutcome(DispatchFrom(guidance_callbacks, 1)),
                                      gate_draw, out.selected)
                    /\ EmitInCycle(out.selected, 1, analysis.situation_type, 0)

\* asyncio.sleep(2.0) returns: the loop goes on to the next character, or
\* ends and the call returns
PacingWake ==
    /\ UNCHANGED orchestration
    /\ pc = "sleeping"
    /\ UNCHANGED <<guidance_context, guidance_callbacks, override, probe>>
    /\ IF emitted < Len(responding)
       THEN /\ EmitInCycle(responding, emitted + 1, situation_type, PacingDelay)
            /\ lastOp' = Done("wake", DispatchOutcome(DispatchFrom(guidance_callbacks, 1)),
                              FALSE, responding)
            /\ status' = <<>>
       ELSE /\ characters' = Aged(characters, PacingDelay)
            /\ emit_age' = AgedEmit(emit_age, PacingDelay)
            /\ last_guidance_age' = Later(last_guidance_age, PacingDelay)
            /\ ReturnFromCycle
            /\ lastOp' = Done("wake", "returned", FALSE, <<>>)
            /\ UNCHANGED <<conversation_flow, delivered, status>>

\* the callback the cycle is suspended in completes: _output_guidance goes on
\* with the callbacks after it (the wait is taken to last under a second)
CallbackCompletes ==
    /\ UNCHANGED orchestration
    /\ pc = "dispatching"
    /\ guidance_callbacks[awaiting.callback] = "suspends"
    /\ LET run == DispatchFrom(guidance_callbacks, awaiting.callback + 1) IN
       /\ delivered' = [delivered EXCEPT ![awaiting.delivery] = Resumed(@, run)]
       /\ AfterDispatch(responding, emitted + 1, situation_type, 0, run, awaiting.delivery)
       /\ lastOp' = Done("resume", DispatchOutcome(run), FALSE, responding)
    /\ status' = <<>>
    /\ UNCHANGED <<guidance_context, guidance_callbacks, override, probe, emit_age>>

\* mutant: a cancelled cycle records the emission it was dispatching
M_CancelMonitorTask_RecordsInFlight ==
    /\ UNCHANGED orchestration
    /\ pc \in {"dispatching", "sleeping"}
    /\ ReturnFromCycle
    /\ lastOp' = Done("cancel", "abandoned", FALSE, <<>>)
    /\ IF pc = "dispatching"
       THEN /\ characters' = Spoke(characters, responding[emitted + 1])
            /\ conversation_flow' =
                   Append(conversation_flow,
                          HistoryEntry(responding[emitted + 1], situation_type))
       ELSE UNCHANGED <<characters, conversation_flow>>
    /\ UNCHANGED <<guidance_context, last_guidance_age, guidance_callbacks, override,
                   status, probe, delivered, emit_age>>

\* monitor_task.cancel(): CancelledError is raised where the monitor task is
\* suspended; inside a cycle that is a callback or the pacing sleep, and no
\* handler on the way out catches it
CancelMonitorTask ==
    /\ UNCHANGED orchestration
    /\ pc \in {"dispatching", "sleeping"}
    /\ ReturnFromCycle
    /\ lastOp' = Done("cancel", "abandoned", FALSE, <<>>)
    /\ UNCHANGED <<characters, guidance_context, conversation_flow, last_guidance_age,
                   guidance_callbacks, override, status, probe, delivered, emit_age>>

\* mutant: only the emissions of a cycle restart the gate's clock
M_OutputGuidance_KeepsGateClock(c, path) ==
    LET run == DispatchFrom(guidance_callbacks, 1) IN
    /\ delivered' = Append(delivered, Delivery(c, path, run))
    /\ emit_age' = [emit_age EXCEPT ![c] = 0]
    /\ last_guidance_age' = last_guidance_age
    /\ override' = IF run.how = "awaiting"
                   THEN [path |-> path, character |-> c, callback |-> run.at,
                         delivery |-> Len(delivered) + 1]
                   ELSE NoOverride

\* _output_guidance as the emergency and force-speak paths use it, up to its
\* first suspension
OutputGuidance(c, path) ==
    LET run == DispatchFrom(guidance_callbacks, 1) IN
    /\ delivered' = Append(delivered, Delivery(c, path, run))
    /\ emit_age' = [emit_age EXCEPT ![c] = 0]
    /\ last_guidance_age' = IF run.how = "done" THEN 0 ELSE last_guidance_age
    /\ override' = IF run.how = "awaiting"
                   THEN [path |-> path, character |-> c, callback |-> run.at,
                         delivery |-> Len(delivered) + 1]
                   ELSE NoOverride

\* mutant: the most professional character is taken, as the comment says
M_EmergencyProfessionals_MostProfessionalFirst ==
    <<"captain_murphy", "dublin_control", "approach_control">>

\* professional_chars of handle_emergency_situation
EmergencyProfessionals ==
    Filter(CharOrder, {c \in Characters : professional_level(c) >= ProfessionalThreshold})

\* (one emergency or force-speak call is followed at a time: the guard on
\* override keeps a second one from starting while the first is suspended)
HandleEmergencySituation ==
    /\ UNCHANGED orchestration
    /\ override = NoOverride
    /\ guidance_context' = [guidance_context EXCEPT !.emergency_situation = TRUE,
                                                    !.complexity_level = 10]
    /\ LET professional_chars == EmergencyProfessionals
       IN  IF professional_chars # <<>>
           THEN /\ OutputGuidance(professional_chars[1], "emergency")
                /\ lastOp' = Done("emergency",
                                  DispatchOutcome(DispatchFrom(guidance_callbacks, 1)),
                                  FALSE, <<professional_chars[1]>>)
           ELSE /\ lastOp' = Done("emergency", "none", FALSE, <<>>)
                /\ UNCHANGED <<delivered, emit_age, last_guidance_age, override>>
    /\ status' = <<>>
    /\ UNCHANGED <<characters, conversation_flow, guidance_callbacks, pc, responding,
                   emitted, situation_type, awaiting, probe>>

\* mutant: the force-speak path respects the character's rest time
M_IsKnownCharacter_AndRested(name) ==
    name \in Characters /\ IsRested(characters[name].last_spoke)

\* mutant: the force-speak path does not look the name up
M_IsKnownCharacter_Always(name) == TRUE

\* character_name in self.characters
IsKnownCharacter(name) == name \in Characters

ForceCharacterGuidance(name) ==
    /\ UNCHANGED orchestration
    /\ override = NoOverride
    /\ IF ~IsKnownCharacter(name)
       THEN /\ lastOp' = DoneWith("force", name, "not_found", FALSE, <<>>)
            /\ UNCHANGED <<delivered, emit_age, last_guidance_age, override>>
       ELSE /\ OutputGuidance(name, "force")
            /\ lastOp' = DoneWith("force", name,
                                  DispatchOutcome(DispatchFrom(guidance_callbacks, 1)),
                                  FALSE, <<name>>)
    /\ status' = <<>>
    /\ UNCHANGED <<characters, guidance_context, conversation_flow, guidance_callbacks,
                   pc, responding, emitted, situation_type, awaiting, probe>>

\* the callback an emergency or force-speak call is suspended in completes
OverrideCallbackCompletes ==
    /\ UNCHANGED orchestration
    /\ override # NoOverride
    /\ guidance_callbacks[override.callback] = "suspends"
    /\ LET run == DispatchFrom(guidance_callbacks, override.callback + 1) IN
       /\ delivered' = [delivered EXCEPT ![override.delivery] = Resumed(@, run)]
       /\ last_guidance_age' = IF run.how = "done" THEN 0 ELSE last_guidance_age
       /\ override' = IF run.how = "awaiting"
                      THEN [override EXCEPT !.callback = run.at]
                      ELSE NoOverride
       /\ lastOp' = DoneWith("resume_" \o override.path, override.character,
                             DispatchOutcome(run), FALSE, <<override.character>>)
    /\ status' = <<>>
    /\ UNCHANGED <<characters, guidance_context, conversation_flow, guidance_callbacks,
                   pc, responding, emitted, situation_type, awaiting, probe, emit_age>>

(***************************************************************************)
(* get_character_status                                                    *)
(***************************************************************************)
\* is_active: spoke in the last 30 minutes
IsActive(last_spoke) == last_spoke # NoTime /\ last_spoke < ActivityWindowSeconds

\* the dictionary get_character_status returns (of the fields of a character
\* those that change; last_spoke: whether a timestamp is reported)
CharacterStatus ==
    [total_characters  |-> Cardinality(Characters),
     active_characters |-> Filter(CharOrder,
                                  {c \in Characters : IsActive(characters[c].last_spoke)}),
     session_messages  |-> [c \in Characters |-> characters[c].spoke_count_session],
     last_spoke        |-> [c \in Characters |-> characters[c].last_spoke # NoTime],
     recent_activity   |-> Len(conversation_flow)]

\* mutant: the query starts a new session count for every character
M_GetCharacterStatus_ResetsSession ==
    /\ UNCHANGED orchestration
    /\ status' = <<CharacterStatus>>
    /\ characters' = [c \in Characters |-> [characters[c] EXCEPT !.spoke_count_session = 0]]
    /\ lastOp' = Done("status", "returned", FALSE, <<>>)
    /\ UNCHANGED <<guidance_context, conversation_flow, last_guidance_age,
                   guidance_callbacks, pc, responding, emitted, situation_type, awaiting,
                   override, probe, delivered, emit_age>>

GetCharacterStatus ==
    /\ UNCHANGED orchestration
    /\ status' = <<CharacterStatus>>
    /\ lastOp' = Done("status", "returned", FALSE, <<>>)
    /\ UNCHANGED <<characters, guidance_context, conversation_flow, last_guidance_age,
                   guidance_callbacks, pc, responding, emitted, situation_type, awaiting,
                   override, probe, delivered, emit_age>>

(***************************************************************************)
(* _generate_template_guidance                                             *)
(***************************************************************************)
\* class GuidancePersonality
GuidancePersonality ==
    {"bored_controller", "harried_controller", "veteran_pilot", "nervous_student",
     "enthusiast_spotter", "safety_officer"}

\* the keys of the templates dictionary
TemplatePersonalities ==
    {"bored_controller", "harried_controller", "veteran_pilot", "enthusiast_spotter"}

\* every list of the templates dictionary has as many entries as this
TemplatesPerPersonality == 4

\* sigh_variants
SighVariants == <<"*sigh*", "Right then,", "Ah,", "Well,">>

\* templates.get(character.personality, templates[BORED_CONTROLLER]): the
\* personality whose template list is used
TemplateSetFor(personality) ==
    IF personality \in TemplatePersonalities THEN personality ELSE "bored_controller"

\* the prefixes the post-processing may put in front ("": none); it looks at
\* the character's own personality, not at the template list used
Prefixes(personality) ==
    IF personality = "bored_controller"
    THEN {""} \cup {SighVariants[i] : i \in 1..Len(SighVariants)}
    ELSE {""}

\* the message: which template of which list, with which callsign and prefix
TemplateGuidance(personality, callsign, choice, prefix) ==
    [templates_of |-> TemplateSetFor(personality), template |-> choice,
     callsign |-> callsign, prefix |-> prefix]

\* callsigns the context may hold
Callsigns == {"unknown", "unknown aircraft", "EI-SIM"}

\* the characters of a callsign
CallsignChars(callsign) ==
    CASE callsign = "EI-SIM" -> <<"E", "I", "-", "S", "I", "M">>
      [] callsign = "unknown" -> <<"u", "n", "k", "n", "o", "w", "n">>
      [] callsign = "unknown aircraft" ->
             <<"u", "n", "k", "n", "o", "w", "n", " ",
               "a", "i", "r", "c", "r", "a", "f", "t">>

\* a character to be put into the registry, and the context it will speak in
InitTemplates ==
    /\ InitSystem
    /\ \E personality \in GuidancePersonality, callsign \in Callsigns :
          probe = <<[personality |-> personality, callsign |-> callsign,
                     stage |-> "defined", message |-> <<>>]>>

\* GuidanceCharacter(...) is stored in self.characters: nothing looks at the
\* templates of its personality
RegisterCharacter ==
    /\ UNCHANGED orchestration
    /\ probe # <<>>
    /\ probe[1].stage = "defined"
    /\ probe' = <<[probe[1] EXCEPT !.stage = "registered"]>>
    /\ lastOp' = Done("register_character", "registered", FALSE, <<>>)
    /\ UNCHANGED <<characters, guidance_context, conversation_flow, last_guidance_age,
                   guidance_callbacks, pc, responding, emitted, situation_type, awaiting,
                   override, status, delivered, emit_age>>

GenerateTemplateGuidance ==
    /\ UNCHANGED orchestration
    /\ probe # <<>>
    /\ probe[1].stage = "registered"
    /\ \E choice \in 1..TemplatesPerPersonality, prefix \in Prefixes(probe[1].personality) :
          probe' = <<[probe[1] EXCEPT
                         !.stage = "generated",
                         !.message = <<TemplateGuidance(probe[1].personality,
                                                        probe[1].callsign, choice, prefix)>>]>>
    /\ lastOp' = Done("generate", "returned", FALSE, <<>>)
    /\ UNCHANGED <<characters, guidance_context, conversation_flow, last_guidance_age,
                   guidance_callbacks, pc, responding, emitted, situation_type, awaiting,
                   override, status, delivered, emit_age>>

(***************************************************************************)
(* AviationPronunciationEngine                                             *)
(*                                                                         *)
(* A Python string is the sequence of its characters, each a one-character *)
(* string ("deg" stands for the degree sign); a spoken phrase is the       *)
(* sequence of its words, which the code joins with single spaces.         *)
(***************************************************************************)
\* the decimal digit characters, '0' first
DigitChars == <<"0", "1", "2", "3", "4", "5", "6", "7", "8", "9">>

\* AVIATION_NUMBERS
AVIATION_NUMBERS ==
    ("0" :> "Zero") @@ ("1" :> "One") @@ ("2" :> "Two") @@ ("3" :> "Three") @@
    ("4" :> "Four") @@ ("5" :> "Five") @@ ("6" :> "Six") @@ ("7" :> "Seven") @@
    ("8" :> "Eight") @@ ("9" :> "Niner")

\* ICAO_PHONETIC_ALPHABET
ICAO_PHONETIC_ALPHABET ==
    ("A" :> "Alpha") @@ ("B" :> "Bravo") @@ ("C" :> "Charlie") @@ ("D" :> "Delta") @@
    ("E" :> "Echo") @@ ("F" :> "Foxtrot") @@ ("G" :> "Golf") @@ ("H" :> "Hotel") @@
    ("I" :> "India") @@ ("J" :> "Juliet") @@ ("K" :> "Kilo") @@ ("L" :> "Lima") @@
    ("M" :> "Mike") @@ ("N" :> "November") @@ ("O" :> "Oscar") @@ ("P" :> "Papa") @@
    ("Q" :> "Quebec") @@ ("R" :> "Romeo") @@ ("S" :> "Sierra") @@ ("T" :> "Tango") @@
    ("U" :> "Uniform") @@ ("V" :> "Victor") @@ ("W" :> "Whiskey") @@ ("X" :> "X-ray") @@
    ("Y" :> "Yankee") @@ ("Z" :> "Zulu")

\* the letters, small and capital
LowerCase ==
    <<"a", "b", "c", "d", "e", "f", "g", "h", "i", "j", "k", "l", "m",
      "n", "o", "p", "q", "r", "s", "t", "u", "v", "w", "x", "y", "z">>
UpperCase ==
    <<"A", "B", "C", "D", "E", "F", "G", "H", "I", "J", "K", "L", "M",
      "N", "O", "P", "Q", "R", "S", "T", "U", "V", "W", "X", "Y", "Z">>

\* str(n) of a non-negative integer
RECURSIVE StrNat(_)
StrNat(n) ==
    IF n < 10 THEN <<DigitChars[n + 1]>>
    ELSE StrNat(n \div 10) \o <<DigitChars[(n % 10) + 1]>>

\* str(n) of an integer
Str(n) == IF n < 0 THEN <<"-">> \o StrNat(-n) ELSE StrNat(n)

\* the value of a digit character
DigitValue(ch) == CHOOSE d \in 0..9 : DigitChars[d + 1] = ch

\* str.isdigit(), for the characters of the model
IsDigits(s) == s # <<>> /\ \A i \in 1..Len(s) : s[i] \in DOMAIN AVIATION_NUMBERS

\* the value of a non-empty string of digits
RECURSIVE NatOf(_)
NatOf(s) ==
    IF s = <<>> THEN 0
    ELSE NatOf(SubSeq(s, 1, Len(s) - 1)) * 10 + DigitValue(s[Len(s)])

\* what a transcription function does: it raises, or it returns a text
Raises == [raised |-> TRUE, text |-> <<>>]
Returns(text) == [raised |-> FALSE, text |-> text]

\* [AVIATION_NUMBERS[d] for d in s], joined: KeyError on a character that is
\* no digit
SpellDigits(s) ==
    IF \A i \in 1..Len(s) : s[i] \in DOMAIN AVIATION_NUMBERS
    THEN Returns([i \in 1..Len(s) |-> AVIATION_NUMBERS[s[i]]])
    ELSE Raises

\* AVIATION_NUMBERS[s] with the whole string as the key: KeyError unless it
\* is one digit
LookupNumber(s) ==
    IF Len(s) = 1 /\ s[1] \in DOMAIN AVIATION_NUMBERS
    THEN Returns(<<AVIATION_NUMBERS[s[1]]>>)
    ELSE Raises

\* f"{a} {b}": a raise in either part is the raise of the whole
Phrase(a, b) == IF a.raised \/ b.raised THEN Raises ELSE Returns(a.text \o b.text)

\* s.startswith(pat) at position i
MatchesAt(s, pat, i) ==
    /\ i + Len(pat) - 1 <= Len(s)
    /\ \A j \in 1..Len(pat) : s[i + j - 1] = pat[j]

\* s.replace(pat, ''): the occurrences of pat, found from the left, removed
RECURSIVE Remove(_, _)
Remove(s, pat) ==
    IF s = <<>> THEN <<>>
    ELSE IF MatchesAt(s, pat, 1) THEN Remove(SubSeq(s, Len(pat) + 1, Len(s)), pat)
    ELSE <<s[1]>> \o Remove(Tail(s), pat)

\* s.strip(): blanks at both ends removed
RECURSIVE Strip(_)
Strip(s) ==
    IF s = <<>> THEN <<>>
    ELSE IF s[1] = " " THEN Strip(Tail(s))
    ELSE IF s[Len(s)] = " " THEN Strip(SubSeq(s, 1, Len(s) - 1))
    ELSE s

\* int(s) of a stripped string: <<n>>, or <<>> for ValueError; a sign and then
\* digits
ParseInt(s) ==
    IF s = <<>> THEN <<>>
    ELSE IF s[1] \in {"-", "+"}
         THEN IF IsDigits(Tail(s))
              THEN <<(IF s[1] = "-" THEN -1 ELSE 1) * NatOf(Tail(s))>>
              ELSE <<>>
    ELSE IF IsDigits(s) THEN <<NatOf(s)>>
    ELSE <<>>

\* an argument that is a number, and one that is a string
Number(n) == [isstr |-> FALSE, n |-> n, s |-> <<>>]
String(s) == [isstr |-> TRUE, n |-> 0, s |-> s]

\* altitudes from this on are flight levels, if they are whole hundreds
FlightLevelFloor == 18000
FlightLevelUnit == 100

\* _pronounce_flight_level_number
PronounceFlightLevelNumber(fl_number) ==
    IF fl_number < 10
    THEN Phrase(Returns(<<"Zero">>), LookupNumber(Str(fl_number)))
    ELSE IF fl_number < 100
    THEN LET tens == fl_number \div 10
             ones == fl_number % 10
         IN  IF ones = 0
             THEN Phrase(LookupNumber(Str(tens)), Returns(<<"Zero">>))
             ELSE Phrase(LookupNumber(Str(tens)), LookupNumber(Str(ones)))
    ELSE SpellDigits(Str(fl_number))

\* the remainder of an altitude below a hundred, if there is one
AltitudeRemainder(remainder) ==
    IF remainder > 0
    THEN IF remainder < 10 THEN LookupNumber(Str(remainder))
         ELSE SpellDigits(Str(remainder))
    ELSE Returns(<<>>)

\* _pronounce_altitude_feet
PronounceAltitudeFeet(altitude) ==
    IF altitude = 0 THEN Returns(<<"Zero", "feet">>)
    ELSE IF altitude >= 1000
    THEN LET thousands == altitude \div 1000
             hundreds == (altitude % 1000) \div 100
             remainder == altitude % 100
             thousands_part ==
                 IF thousands = 1 THEN Returns(<<"One", "Thousand">>)
                 ELSE Phrase(SpellDigits(Str(thousands)), Returns(<<"Thousand">>))
             hundreds_part ==
                 IF hundreds > 0
                 THEN Phrase(LookupNumber(Str(hundreds)), Returns(<<"Hundred">>))
                 ELSE Returns(<<>>)
         IN  Phrase(Phrase(thousands_part, hundreds_part),
                    Phrase(AltitudeRemainder(remainder), Returns(<<"feet">>)))
    ELSE IF altitude >= 100
    THEN LET hundreds == altitude \div 100
             remainder == altitude % 100
         IN  Phrase(Phrase(LookupNumber(Str(hundreds)), Returns(<<"Hundred">>)),
                    Phrase(AltitudeRemainder(remainder), Returns(<<"feet">>)))
    ELSE IF altitude < 10
    THEN Phrase(LookupNumber(Str(altitude)), Returns(<<"feet">>))
    ELSE Phrase(SpellDigits(Str(altitude)), Returns(<<"feet">>))

\* the altitude is spoken as a flight level (mutant: whole hundreds or not)
M_IsFlightLevel_AnyAbove(altitude) == altitude >= FlightLevelFloor

\* the altitude is spoken as a flight level
IsFlightLevel(altitude) ==
    altitude >= FlightLevelFloor /\ altitude % FlightLevelUnit = 0

\* pronounce_altitude of an integer
PronounceAltitudeInt(altitude) ==
    IF IsFlightLevel(altitude)
    THEN LET flight_level == altitude \div FlightLevelUnit
         IN  IF flight_level < 100
             THEN Phrase(Returns(<<"Flight", "Level">>),
                         PronounceFlightLevelNumber(flight_level))
             ELSE Phrase(Returns(<<"Flight", "Level">>), SpellDigits(Str(flight_level)))
    ELSE PronounceAltitudeFeet(altitude)

\* pronounce_altitude
pronounce_altitude(altitude) ==
    IF altitude.isstr
    THEN LET parsed == ParseInt(Strip(Remove(Remove(altitude.s, <<",">>), <<"f", "t">>)))
         IN  IF parsed = <<>> THEN Returns(altitude.s)
             ELSE PronounceAltitudeInt(parsed[1])
    ELSE PronounceAltitudeInt(altitude.n)

\* s padded on the left with zeros to the width
RECURSIVE PadLeft(_, _)
PadLeft(s, width) == IF Len(s) >= width THEN s ELSE PadLeft(<<"0">> \o s, width)

\* f"{n:03d}": the sign counts for the width and stays in front
Format03d(n) ==
    IF n < 0 THEN <<"-">> \o PadLeft(StrNat(-n), 2) ELSE PadLeft(StrNat(n), 3)

\* a full turn of the compass
FullCircle == 360

\* heading % 360 (mutant: a remainder with the sign of the heading)
M_NormalizeHeading_Truncated(heading) ==
    IF heading < 0 THEN -((-heading) % FullCircle) ELSE heading % FullCircle

\* heading % 360: Python's remainder has the sign of the divisor
NormalizeHeading(heading) == heading % FullCircle

\* pronounce_heading of an integer
PronounceHeadingInt(heading) == SpellDigits(Format03d(NormalizeHeading(heading)))

\* pronounce_heading
pronounce_heading(heading) ==
    IF heading.isstr
    THEN LET parsed == ParseInt(Strip(Remove(heading.s, <<"deg">>)))
         IN  IF parsed = <<>> THEN Returns(heading.s)
             ELSE PronounceHeadingInt(parsed[1])
    ELSE PronounceHeadingInt(heading.n)

\* pronounce_speed of an integer, with the default unit
PronounceSpeedInt(speed) ==
    IF speed = 0 THEN Returns(<<"Zero", "knots">>)
    ELSE IF speed < 100
    THEN IF speed < 10
         THEN Phrase(LookupNumber(Str(speed)), Returns(<<"knots">>))
         ELSE Phrase(SpellDigits(Str(speed)), Returns(<<"knots">>))
    ELSE Phrase(SpellDigits(Str(speed)), Returns(<<"knots">>))

\* pronounce_speed
pronounce_speed(speed) ==
    IF speed.isstr
    THEN LET parsed == ParseInt(Strip(Remove(Remove(speed.s, <<"k", "t", "s">>),
                                             <<"k", "n", "o", "t", "s">>)))
         IN  IF parsed = <<>> THEN Returns(speed.s)
             ELSE PronounceSpeedInt(parsed[1])
    ELSE PronounceSpeedInt(speed.n)

\* a float is held as a whole number of its last printed decimal: a frequency
\* in thousandths (f"{frequency:.3f}"), a visibility in hundredths
\* (f"{visibility:.2f}")
FrequencyDecimals == 3
VisibilityDecimals == 2

RECURSIVE PowerOfTen(_)
PowerOfTen(k) == IF k = 0 THEN 1 ELSE 10 * PowerOfTen(k - 1)

\* the position of the first ch in s, 0 if there is none
RECURSIVE IndexOf(_, _, _)
IndexOf(s, ch, i) ==
    IF i > Len(s) THEN 0 ELSE IF s[i] = ch THEN i ELSE IndexOf(s, ch, i + 1)

\* float(s) of a stripped string with at most `decimals` decimals and no
\* exponent, as a whole number of the last decimal: <<n>>, or <<>> for
\* ValueError
ParseFloat(s, decimals) ==
    LET signed == s # <<>> /\ s[1] \in {"-", "+"}
        body == IF signed THEN Tail(s) ELSE s
        dot == IndexOf(body, ".", 1)
        whole == IF dot = 0 THEN body ELSE SubSeq(body, 1, dot - 1)
        frac == IF dot = 0 THEN <<>> ELSE SubSeq(body, dot + 1, Len(body))
        wellformed ==
            /\ whole \o frac # <<>>
            /\ \A i \in 1..Len(whole) : whole[i] \in DOMAIN AVIATION_NUMBERS
            /\ \A i \in 1..Len(frac) : frac[i] \in DOMAIN AVIATION_NUMBERS
            /\ Len(frac) <= decimals
        magnitude ==
            NatOf(whole) * PowerOfTen(decimals)
                + NatOf(frac) * PowerOfTen(decimals - Len(frac))
    IN  IF ~wellformed THEN <<>>
        ELSE <<(IF signed /\ s[1] = "-" THEN -1 ELSE 1) * magnitude>>

\* f"{x:.3f}" and f"{x:.2f}" of a float held as a whole number of the last
\* decimal
FormatFixed(n, decimals) ==
    LET magnitude == IF n < 0 THEN -n ELSE n
        unit == PowerOfTen(decimals)
    IN  (IF n < 0 THEN <<"-">> ELSE <<>>)
            \o StrNat(magnitude \div unit) \o <<".">>
            \o PadLeft(StrNat(magnitude % unit), decimals)

\* pronounce_frequency of a float
PronounceFrequencyFloat(frequency) ==
    LET freq_str == FormatFixed(frequency, FrequencyDecimals)
        dot == IndexOf(freq_str, ".", 1)
        whole_part == SubSeq(freq_str, 1, dot - 1)
        decimal_part == SubSeq(freq_str, dot + 1, Len(freq_str))
    IN  Phrase(Phrase(SpellDigits(whole_part), Returns(<<"decimal">>)),
               SpellDigits(decimal_part))

\* pronounce_frequency
pronounce_frequency(frequency) ==
    IF frequency.isstr
    THEN LET parsed == ParseFloat(Strip(Remove(frequency.s, <<"M", "H", "z">>)),
                                  FrequencyDecimals)
         IN  IF parsed = <<>> THEN Returns(frequency.s)
             ELSE PronounceFrequencyFloat(parsed[1])
    ELSE PronounceFrequencyFloat(frequency.n)

\* s.rstrip(ch)
RECURSIVE RStrip(_, _)
RStrip(s, ch) ==
    IF s # <<>> /\ s[Len(s)] = ch THEN RStrip(SubSeq(s, 1, Len(s) - 1), ch) ELSE s

\* [AVIATION_NUMBERS[d] for d in part] if part else []
SpellIfAny(part) == IF part = <<>> THEN Returns(<<>>) ELSE SpellDigits(part)

\* pronounce_visibility of a float (in hundredths)
PronounceVisibilityFloat(visibility) ==
    LET unit == PowerOfTen(VisibilityDecimals)
        vis_str == RStrip(RStrip(FormatFixed(visibility, VisibilityDecimals), "0"), ".")
        dot == IndexOf(vis_str, ".", 1)
        whole_part == IF dot = 0 THEN vis_str ELSE SubSeq(vis_str, 1, dot - 1)
        decimal_part == IF dot = 0 THEN <<>> ELSE SubSeq(vis_str, dot + 1, Len(vis_str))
    IN  IF visibility >= 10 * unit
        THEN Returns(<<"Greater", "than", "one", "zero", "statute", "miles">>)
        ELSE IF visibility >= unit
        THEN IF visibility % unit = 0
             THEN Phrase(SpellDigits(Str(visibility \div unit)),
                         Returns(<<"statute", "miles">>))
             ELSE LET whole_digits == SpellIfAny(whole_part)
                      decimal_digits == SpellIfAny(decimal_part)
                      point == IF decimal_part = <<>> THEN Returns(<<>>)
                               ELSE Phrase(Returns(<<"point">>), decimal_digits)
                  IN  Phrase(Phrase(whole_digits, point), Returns(<<"statute", "miles">>))
        ELSE IF dot # 0
        THEN Phrase(Phrase(Returns(<<"Zero", "point">>), SpellDigits(decimal_part)),
                    Returns(<<"statute", "miles">>))
        ELSE Phrase(LookupNumber(vis_str), Returns(<<"statute", "miles">>))

\* pronounce_visibility
pronounce_visibility(visibility) ==
    IF visibility.isstr
    THEN LET parsed == ParseFloat(Strip(Remove(Remove(visibility.s, <<"S", "M">>),
                                               <<"k", "m">>)),
                                  VisibilityDecimals)
         IN  IF parsed = <<>> THEN Returns(visibility.s)
             ELSE PronounceVisibilityFloat(parsed[1])
    ELSE PronounceVisibilityFloat(visibility.n)

\* s.split(sep): the parts between the separators
RECURSIVE Split(_, _)
Split(s, sep) ==
    LET at == IndexOf(s, sep, 1)
    IN  IF at = 0 THEN <<s>>
        ELSE <<SubSeq(s, 1, at - 1)>> \o Split(SubSeq(s, at + 1, Len(s)), sep)

\* s.zfill(2): zeros put in front, behind a sign if there is one
Zfill2(s) ==
    IF s # <<>> /\ s[1] \in {"-", "+"}
    THEN <<s[1]>> \o PadLeft(Tail(s), 1)
    ELSE PadLeft(s, 2)

\* clean_time: the suffixes Z, UTC and GMT removed, then the blanks at the ends
CleanTime(time_str) ==
    Strip(Remove(Remove(Remove(time_str, <<"Z">>), <<"U", "T", "C">>), <<"G", "M", "T">>))

\* pronounce_time of a string
PronounceTimeStr(time_str) ==
    LET clean_time == CleanTime(time_str)
        parts == Split(clean_time, ":")
    IN  IF IndexOf(clean_time, ":", 1) # 0
        THEN IF Len(parts) = 2
             THEN Phrase(SpellDigits(Zfill2(parts[1]) \o Zfill2(parts[2])),
                         Returns(<<"hours">>))
             ELSE Returns(time_str)
        ELSE IF Len(clean_time) = 4 /\ IsDigits(clean_time)
        THEN Phrase(SpellDigits(clean_time), Returns(<<"hours">>))
        ELSE IF Len(clean_time) = 3 /\ IsDigits(clean_time)
        THEN Phrase(SpellDigits(<<"0">> \o clean_time), Returns(<<"hours">>))
        ELSE Returns(time_str)

\* pronounce_time: a number has no replace(), the call ends in AttributeError
pronounce_time(time_str) ==
    IF time_str.isstr THEN PronounceTimeStr(time_str.s) ELSE Raises

\* str.upper() of one character
Upper(ch) ==
    IF \E i \in 1..Len(LowerCase) : LowerCase[i] = ch
    THEN UpperCase[CHOOSE i \in 1..Len(LowerCase) : LowerCase[i] = ch]
    ELSE ch

\* str.isalpha() and str.isalnum() of one character
IsLetter(ch) == Upper(ch) \in DOMAIN ICAO_PHONETIC_ALPHABET
IsAlnum(ch) == IsLetter(ch) \/ ch \in DOMAIN AVIATION_NUMBERS

\* the word or character pronounce_icao_code says for one character
IcaoWord(ch) ==
    IF ch \in DOMAIN ICAO_PHONETIC_ALPHABET THEN ICAO_PHONETIC_ALPHABET[ch]
    ELSE IF ch \in DOMAIN AVIATION_NUMBERS THEN AVIATION_NUMBERS[ch]
    ELSE ch

\* pronounce_icao_code: the entries of airport_pronunciations are the
\* letter-by-letter spellings of their keys
pronounce_icao_code(icao_code) ==
    [i \in 1..Len(icao_code) |-> IcaoWord(Upper(icao_code[i]))]

\* the part collected so far, spoken by its type
CallsignPart(current_part, current_type) ==
    IF current_part = <<>> THEN Returns(<<>>)
    ELSE IF current_type = "letter" THEN Returns(pronounce_icao_code(current_part))
    ELSE SpellDigits(current_part)

\* the loop of format_traffic_call over callsign.upper(), from character i
RECURSIVE CallsignLoop(_, _, _, _, _)
CallsignLoop(s, i, callsign_parts, current_part, current_type) ==
    IF i > Len(s)
    THEN Phrase(callsign_parts, CallsignPart(current_part, current_type))
    ELSE LET ch == Upper(s[i])
         IN  IF ch = "-" \/ ch = " "
             THEN CallsignLoop(s, i + 1,
                               Phrase(callsign_parts,
                                      CallsignPart(current_part, current_type)),
                               <<>>, IF current_part # <<>> THEN "none" ELSE current_type)
             ELSE IF IsLetter(ch)
             THEN IF current_type = "digit" /\ current_part # <<>>
                  THEN CallsignLoop(s, i + 1,
                                    Phrase(callsign_parts, SpellDigits(current_part)),
                                    <<ch>>, "letter")
                  ELSE CallsignLoop(s, i + 1, callsign_parts,
                                    current_part \o <<ch>>, "letter")
             ELSE IF ch \in DOMAIN AVIATION_NUMBERS
             THEN IF current_type = "letter" /\ current_part # <<>>
                  THEN CallsignLoop(s, i + 1,
                                    Phrase(callsign_parts,
                                           Returns(pronounce_icao_code(current_part))),
                                    <<ch>>, "digit")
                  ELSE CallsignLoop(s, i + 1, callsign_parts,
                                    current_part \o <<ch>>, "digit")
             ELSE CallsignLoop(s, i + 1, callsign_parts, current_part, current_type)

\* the callsign as format_traffic_call speaks it
CallsignPronunciation(callsign) ==
    LET bare == Remove(Remove(callsign, <<"-">>), <<" ">>)
    IN  IF callsign # <<>> /\ \A i \in 1..Len(callsign) : IsLetter(callsign[i])
        THEN Returns(pronounce_icao_code(callsign))
        ELSE IF bare # <<>> /\ \A i \in 1..Len(bare) : IsAlnum(bare[i])
        THEN CallsignLoop(callsign, 1, Returns(<<>>), <<>>, "none")
        ELSE Returns(callsign)

\* _pronounce_number_simple
PronounceNumberSimple(number) ==
    IF number < 10 THEN LookupNumber(Str(number))
    ELSE IF number < 100
    THEN LET tens == number \div 10
             ones == number % 10
         IN  IF ones = 0
             THEN Phrase(LookupNumber(Str(tens)), Returns(<<"zero">>))
             ELSE Phrase(LookupNumber(Str(tens)), LookupNumber(Str(ones)))
    ELSE SpellDigits(Str(number))

\* a distance is held in tenths of a nautical mile
DistanceUnit == 10

\* int(round(distance)): Python rounds a half to the even neighbour
RoundHalfEven(distance) ==
    LET low == distance \div DistanceUnit
        rest == distance % DistanceUnit
    IN  IF 2 * rest < DistanceUnit THEN low
        ELSE IF 2 * rest > DistanceUnit THEN low + 1
        ELSE IF low % 2 = 0 THEN low ELSE low + 1

\* the distance of a traffic call
DistancePronunciation(distance) ==
    IF distance >= DistanceUnit
    THEN LET distance_int == RoundHalfEven(distance)
         IN  IF distance_int < 10 THEN LookupNumber(Str(distance_int))
             ELSE SpellDigits(Str(distance_int))
    ELSE Returns(<<"Less", "than", "one">>)

\* altitude differences beyond this are spoken, those within are "similar"
SimilarAltitudeFeet == 500

\* the altitude band of a traffic call (mutant: the bounds belong to above
\* and below)
M_AltitudeBand_Inclusive(altitude_diff) ==
    IF altitude_diff >= SimilarAltitudeFeet THEN "above"
    ELSE IF altitude_diff <= -SimilarAltitudeFeet THEN "below"
    ELSE "similar"

\* the altitude band of a traffic call
AltitudeBand(altitude_diff) ==
    IF altitude_diff > SimilarAltitudeFeet THEN "above"
    ELSE IF altitude_diff < -SimilarAltitudeFeet THEN "below"
    ELSE "similar"

\* the altitude phrase of a traffic call
AltitudePhrase(altitude_diff) ==
    CASE AltitudeBand(altitude_diff) = "above" ->
             Phrase(PronounceNumberSimple(altitude_diff), Returns(<<"feet", "above">>))
      [] AltitudeBand(altitude_diff) = "below" ->
             Phrase(PronounceNumberSimple(-altitude_diff), Returns(<<"feet", "below">>))
      [] OTHER -> Returns(<<"at", "similar", "altitude">>)

\* format_traffic_call; a "," is a comma behind the word before it
format_traffic_call(callsign, aircraft_type, distance, bearing, altitude_diff) ==
    LET comma == Returns(<<",">>)
        head == Phrase(Phrase(Returns(<<"Traffic">>), comma),
                       Phrase(CallsignPronunciation(callsign), comma))
        type == Phrase(Returns(<<aircraft_type>>), comma)
        miles == Phrase(Phrase(DistancePronunciation(distance),
                               Returns(<<"nautical", "miles">>)), comma)
        clock == Phrase(Phrase(pronounce_heading(Number(bearing)),
                               Returns(<<"o'clock">>)), comma)
    IN  Phrase(Phrase(Phrase(head, type), Phrase(miles, clock)),
               AltitudePhrase(altitude_diff))

\* the arguments the transcription functions are called with
AltitudeArgs ==
    {Number(n) : n \in (-MaxNegative..MaxAltitude) \cup {25000, 35000, 35050, 41000, 99900, 100000}}
        \cup {String(s) : s \in {<<"3", ",", "5", "0", "0", "f", "t">>,
                                 <<"1", "8", "0", "0", "0">>,
                                 <<" ", "1", "5", "0", "0", " ">>,
                                 <<"a", "b", "c">>, <<"-", "5">>, <<>>}}

HeadingArgs ==
    {Number(n) : n \in -MaxHeading..MaxHeading}
        \cup {String(s) : s \in {<<"9", "0", "deg">>, <<"-", "1", "0">>, <<"x">>}}

SpeedArgs ==
    {Number(n) : n \in -MaxNegative..MaxSpeed}
        \cup {String(s) : s \in {<<"2", "5", "0", "k", "t", "s">>,
                                 <<"1", "2", "0", " ", "k", "n", "o", "t", "s">>,
                                 <<"f", "a", "s", "t">>}}

FrequencyArgs ==
    {Number(n) : n \in (-MaxNegative..MaxNegative) \cup {118100, 121500, 132450, 134875}}
        \cup {String(s) : s \in {<<"1", "1", "8", ".", "1", "M", "H", "z">>,
                                 <<"1", "2", "1", ".", "5">>, <<"-", "1">>, <<"x">>}}

VisibilityArgs ==
    {Number(n) : n \in -MaxVisibility..MaxVisibility}
        \cup {String(s) : s \in {<<"5", "S", "M">>, <<"2", ".", "5">>,
                                 <<"1", "0", "k", "m">>, <<"x">>}}

TimeArgs ==
    {String(s) : s \in {<<"1", "4", ":", "3", "0">>, <<"1", "4", "3", "0", "Z">>,
                        <<"1", "4", "3", "0", " ", "U", "T", "C">>,
                        <<"1", "4", "3", "0", "G", "M", "T">>,
                        <<"4", "3", "0">>, <<"2", ":", "3", "0">>,
                        <<"1", "a", ":", "3", "0">>, <<"a", "b", ":", "c", "d">>,
                        <<"1", "2", "3", ":", "4", "5", "6">>,
                        <<"1", "2", ":", "3", "4", ":", "5", "6">>,
                        <<"2", ":", "3", "0", " ", "P", "M">>,
                        <<"1", "4">>, <<"1", "4", "3", "0", "5">>, <<"a", "b", "c", "d">>,
                        <<"h", "e", "l", "l", "o">>, <<":">>, <<>>}}
        \cup {Number(1430)}

TrafficCallsigns ==
    {<<"E", "I", "-", "A", "B", "C">>, <<"e", "i", "d", "w">>,
     <<"E", "I", "1", "2", "3">>, <<"E", "I", "?">>}

TrafficDistances == {5, 25, 35, 52, 125}

TrafficBearings == {120, -10}

TrafficArgs ==
    [callsign : TrafficCallsigns, aircraft_type : {"B737"}, distance : TrafficDistances,
     bearing : TrafficBearings, altitude_diff : -MaxAltitudeDiff..MaxAltitudeDiff]

\* a call of a transcription function that has not run yet
Called(call, arg) ==
    <<[call |-> call, arg |-> arg, stage |-> "called", result |-> Returns(<<>>)]>>

InitPronunciation ==
    /\ InitSystem
    /\ \/ \E arg \in AltitudeArgs : probe = Called("pronounce_altitude", arg)
       \/ \E arg \in HeadingArgs : probe = Called("pronounce_heading", arg)
       \/ \E arg \in SpeedArgs : probe = Called("pronounce_speed", arg)
       \/ \E arg \in FrequencyArgs : probe = Called("pronounce_frequency", arg)
       \/ \E arg \in VisibilityArgs : probe = Called("pronounce_visibility", arg)
       \/ \E arg \in TimeArgs : probe = Called("pronounce_time", arg)
       \/ \E arg \in TrafficArgs : probe = Called("format_traffic_call", arg)

\* the call of the probe runs and ends with the result
Transcribe(call, result) ==
    /\ UNCHANGED orchestration
    /\ probe # <<>>
    /\ probe[1].call = call
    /\ probe[1].stage = "called"
    /\ probe' = <<[probe[1] EXCEPT !.stage = "ended", !.result = result]>>
    /\ lastOp' = Done(call, IF result.raised THEN "raised" ELSE "returned", FALSE, <<>>)
    /\ UNCHANGED <<characters, guidance_context, conversation_flow, last_guidance_age,
                   guidance_callbacks, pc, responding, emitted, situation_type, awaiting,
                   override, status, delivered, emit_age>>

PronounceAltitude == Transcribe("pronounce_altitude", pronounce_altitude(probe[1].arg))
PronounceHeading == Transcribe("pronounce_heading", pronounce_heading(probe[1].arg))
PronounceSpeed == Transcribe("pronounce_speed", pronounce_speed(probe[1].arg))
PronounceFrequency == Transcribe("pronounce_frequency", pronounce_frequency(probe[1].arg))
PronounceVisibility == Transcribe("pronounce_visibility", pronounce_visibility(probe[1].arg))
PronounceTime == Transcribe("pronounce_time", pronounce_time(probe[1].arg))
FormatTrafficCall ==
    Transcribe("format_traffic_call",
               format_traffic_call(probe[1].arg.callsign, probe[1].arg.aircraft_type,
                                   probe[1].arg.distance, probe[1].arg.bearing,
                                   probe[1].arg.altitude_diff))

(***************************************************************************)
(* _select_responding_characters applied on its own                        *)
(***************************************************************************)
\* urgency levels of the analysis handed to the selector: the two the analyzer
\* produces, the threshold of the professional branch, and the top of the scale
ProbedUrgencies == {1, 3, HighUrgency, 10}

\* the analyses of the snapshots, at each urgency
Analyses ==
    {[AnalyzeSituation(UpdateGuidanceContext(fd), fd) EXCEPT !.urgency_level = u] :
        fd \in Snapshots, u \in ProbedUrgencies}

\* last_spoke: never, one second short of five minutes ago, five minutes ago
RestAges == {NoTime, CharacterRestSeconds - 1, CharacterRestSeconds}

\* self.characters, each character with one of the ages
ProbedCharacters ==
    {[c \in Characters |->
         [last_spoke |-> ages[c],
          spoke_count_session |-> IF ages[c] = NoTime THEN 0 ELSE 1]] :
        ages \in [Characters -> RestAges]}

\* the analysis, the characters, and the characters whose response_likelihood
\* draw passes
SelectorArgs == [analysis : Analyses, chars : ProbedCharacters, passes : SUBSET Characters]

InitSelector ==
    /\ InitSystem
    /\ \E arg \in SelectorArgs :
          probe = <<[call |-> "_select_responding_characters", arg |-> arg,
                     stage |-> "called",
                     result |-> [raised |-> FALSE, selected |-> <<>>]]>>

\* the selector runs with the draws of one of its outcomes
SelectRespondingCharacters ==
    /\ UNCHANGED orchestration
    /\ probe # <<>>
    /\ probe[1].call = "_select_responding_characters"
    /\ probe[1].stage = "called"
    /\ \E outcome \in SelectionOutcomes(probe[1].arg.analysis, probe[1].arg.chars,
                                         probe[1].arg.passes) :
          /\ probe' = <<[probe[1] EXCEPT !.stage = "ended", !.result = outcome]>>
          /\ lastOp' = Done("_select_responding_characters",
                            IF outcome.raised THEN "raised" ELSE "returned",
                            FALSE, outcome.selected)
    /\ UNCHANGED <<characters, guidance_context, conversation_flow, last_guidance_age,
                   guidance_callbacks, pc, responding, emitted, situation_type, awaiting,
                   override, status, delivered, emit_age>>

(***************************************************************************)
(* _update_guidance_context and _analyze_situation applied on their own     *)
(***************************************************************************)
\* flight_data.get('phase', '') and flight_data.get('aircraft_type', '')
Phases == {"taxi", "takeoff", "landing", "cruise"}
AircraftTypes == {"", "B737", "C172"}

AnalysisSnapshots ==
    {Snapshot(traffic, weather, emergency, phase, aircraft) :
        traffic \in 0..MaxTraffic, weather \in 0..MaxWeather, emergency \in BOOLEAN,
        phase \in Phases, aircraft \in AircraftTypes}

NoAnalysis == [situation_type |-> "none", urgency_level |-> 0, character_preferences |-> <<>>]

InitAnalysis ==
    /\ InitSystem
    /\ \E fd \in AnalysisSnapshots :
          probe = <<[call |-> "process_flight_situation", arg |-> fd, stage |-> "called",
                     result |-> NoAnalysis]>>

\* await self._update_guidance_context(flight_data)
UpdateContext ==
    /\ UNCHANGED orchestration
    /\ probe # <<>>
    /\ probe[1].call = "process_flight_situation"
    /\ probe[1].stage = "called"
    /\ guidance_context' = UpdateGuidanceContext(probe[1].arg)
    /\ probe' = <<[probe[1] EXCEPT !.stage = "updated"]>>
    /\ lastOp' = Done("_update_guidance_context", "returned", FALSE, <<>>)
    /\ UNCHANGED <<characters, conversation_flow, last_guidance_age,
                   guidance_callbacks, pc, responding, emitted, situation_type, awaiting,
                   override, status, delivered, emit_age>>

\* situation_analysis = await self._analyze_situation(flight_data)
AnalyzeSnapshot ==
    /\ UNCHANGED orchestration
    /\ probe # <<>>
    /\ probe[1].call = "process_flight_situation"
    /\ probe[1].stage = "updated"
    /\ probe' = <<[probe[1] EXCEPT !.stage = "analysed",
                                   !.result = AnalyzeSituation(guidance_context, probe[1].arg)]>>
    /\ lastOp' = Done("_analyze_situation", "returned", FALSE, <<>>)
    /\ UNCHANGED <<characters, guidance_context, conversation_flow, last_guidance_age,
                   guidance_callbacks, pc, responding, emitted, situation_type, awaiting,
                   override, status, delivered, emit_age>>

(***************************************************************************)
(* The services and the orchestrator's ServiceHealthMonitor                *)
(***************************************************************************)
\* the processes the launcher starts
Services == {"orchestrator", "simviator", "bot_control"}

\* OrchestratorConfig.services, in the order of the list
ConfigServices == <<"simviator", "bot_control">>
MonitoredServices == {ConfigServices[i] : i \in 1..Len(ConfigServices)}

\* the port of each service, and the port its health URL names
OrchestratorPort == 8000
SimviatorPort == 8001
BotControlPort == 8002
ServicePort(service) ==
    CASE service = "orchestrator" -> OrchestratorPort
      [] service = "simviator" -> SimviatorPort
      [] service = "bot_control" -> BotControlPort

\* the ports a running service accepts connections on: start() of each service
\* logs its port, starts its tasks and sleeps in a loop; none opens a socket
ListeningPorts(service) == {}

\* what a GET of a service's health URL meets: the answer of the process that
\* listens on the port, or a refused connection
HealthResponse(service, up) ==
    IF \E s \in up : ServicePort(service) \in ListeningPorts(s)
    THEN "200"
    ELSE "connection error"

\* every answer a health check can meet
Responses == {"200", "503", "timeout", "connection error"}

\* ServiceHealthMonitor.__init__: the state of a service before its first check
UnknownState ==
    [status |-> "unknown", checked |-> FALSE, succeeded |-> FALSE,
     consecutive_failures |-> 0, total_checks |-> 0, total_failures |-> 0]

\* a counter one higher; MaxChecks stands for MaxChecks or more
Counted(n) == Min(n + 1, MaxChecks)

\* _check_service_health up to the answer: last_check and total_checks
Checked(state) ==
    [state EXCEPT !.checked = TRUE, !.total_checks = Counted(@)]

\* the branch of response.status == 200
HealthSuccess(state) ==
    [state EXCEPT !.status = "healthy", !.succeeded = TRUE, !.consecutive_failures = 0]

\* _handle_health_failure
HandleHealthFailure(state) ==
    [state EXCEPT !.status = "unhealthy", !.consecutive_failures = Counted(@),
                  !.total_failures = Counted(@)]

\* _check_service_health: the state of the service after the check
AfterCheck(state, response) ==
    IF response = "200" THEN HealthSuccess(Checked(state))
    ELSE HandleHealthFailure(Checked(state))

\* mutant: the callbacks are told of every check
M_Notifies_EveryCheck(old, new) == TRUE

\* _notify_health_change is called when the status is not the one before
Notifies(old, new) == old.status # new.status

\* consecutive_failures >= 3 in _on_service_health_change
WarnFailures == 3

\* OrchestratorService._on_service_health_change, the only health callback,
\* with the copy of the state it is handed: it logs the change, and warns of a
\* service that is unhealthy after WarnFailures consecutive failures or more
OnServiceHealthChange(state) ==
    IF state.status = "unhealthy" /\ state.consecutive_failures >= WarnFailures
    THEN "warned" ELSE "notified"

\* the monitoring loop is not running
NoLoop == 0

\* the position of the monitoring loop behind the last service: its sleep
LoopSleeps == Len(ConfigServices) + 1

\* a process is started; the orchestrator builds its monitor and
\* start_monitoring starts the monitoring loop
ProcessRuns(started) ==
    /\ running' = running \cup started
    /\ IF "orchestrator" \in started
       THEN /\ service_states' = [s \in MonitoredServices |-> UnknownState]
            /\ monitor' = [monitoring |-> TRUE, at |-> 1]
       ELSE UNCHANGED <<service_states, monitor>>

StartService(service) ==
    /\ UNCHANGED platform
    /\ service \notin running
    /\ ProcessRuns({service})
    /\ lastOp' = DoneWith("start", service, "started", FALSE, <<>>)
    /\ UNCHANGED <<characters, guidance_context, conversation_flow, last_guidance_age,
                   guidance_callbacks, pc, responding, emitted, situation_type, awaiting,
                   override, status, probe, delivered, emit_age>>

\* a process stops; the orchestrator's stop_monitoring ends the monitoring
StopService(service) ==
    /\ UNCHANGED platform
    /\ service \in running
    /\ running' = running \ {service}
    /\ IF service = "orchestrator"
       THEN monitor' = [monitoring |-> FALSE, at |-> NoLoop]
       ELSE UNCHANGED monitor
    /\ lastOp' = DoneWith("stop", service, "stopped", FALSE, <<>>)
    /\ UNCHANGED <<characters, guidance_context, conversation_flow, last_guidance_age,
                   guidance_callbacks, pc, responding, emitted, situation_type, awaiting,
                   override, status, probe, delivered, emit_age, service_states>>

\* _monitoring_loop checks the next service of the list
CheckServiceHealth(response) ==
    /\ UNCHANGED platform
    /\ monitor.monitoring
    /\ monitor.at \in 1..Len(ConfigServices)
    /\ LET service == ConfigServices[monitor.at]
           old == service_states[service]
           new == AfterCheck(old, response)
       IN  /\ service_states' = [service_states EXCEPT ![service] = new]
           /\ lastOp' = DoneWith("check", service,
                                 IF Notifies(old, new) THEN OnServiceHealthChange(new)
                                 ELSE "silent",
                                 FALSE, <<>>)
    /\ monitor' = [monitor EXCEPT !.at = @ + 1]
    /\ UNCHANGED <<characters, guidance_context, conversation_flow, last_guidance_age,
                   guidance_callbacks, pc, responding, emitted, situation_type, awaiting,
                   override, status, probe, delivered, emit_age, running>>

\* the check meets any answer
CheckAnyResponse == \E response \in Responses : CheckServiceHealth(response)

\* the check meets what the services of the repository answer
CheckRunningService == CheckServiceHealth(HealthResponse(ConfigServices[monitor.at], running))

\* _monitoring_loop: asyncio.sleep(health_check_interval) ends and the list is
\* gone through again
MonitorWakes ==
    /\ UNCHANGED platform
    /\ monitor.monitoring
    /\ monitor.at = LoopSleeps
    /\ monitor' = [monitor EXCEPT !.at = 1]
    /\ lastOp' = DoneWith("monitor_sleep", "none", "woke", FALSE, <<>>)
    /\ UNCHANGED <<characters, guidance_context, conversation_flow, last_guidance_age,
                   guidance_callbacks, pc, responding, emitted, situation_type, awaiting,
                   override, status, probe, delivered, emit_age, running, service_states>>

(***************************************************************************)
(* EventCoordinator                                                         *)
(***************************************************************************)
\* self.max_history = 100
max_history == 100

\* event types a service publishes: two with a route, one without
EventTypes ==
    {"simviator.flight.phase_changed", "bot_control.command.received", "launcher.started"}

\* self.event_routes.get(event_type, [])
EventRoutes(event_type) ==
    CASE event_type \in {"simviator.flight.phase_changed", "simviator.commentary.generated",
                         "simviator.emergency.declared"} -> <<"bot_control">>
      [] event_type \in {"bot_control.personality.changed",
                         "bot_control.command.received"} -> <<"simviator">>
      [] OTHER -> <<>>

\* the event publish_event builds: an event is told from the others by its
\* place in the order of publication (its timestamp)
Event(n) == [seq |-> n]

\* mutant: the history is cut back to its oldest entries
M_LastEntries_Oldest(history, n) == SubSeq(history, 1, n)

\* history[-n:] for n > 0
LastEntries(history, n) ==
    IF n >= Len(history) THEN history
    ELSE SubSeq(history, Len(history) - n + 1, Len(history))

\* self.event_history after the append and the cut
Recorded(history, event) ==
    LET appended == Append(history, event)
    IN  IF Len(appended) > max_history THEN LastEntries(appended, max_history)
        ELSE appended

\* publish_event: the history is written before the first await, and
\* _deliver_event only logs
PublishEvent(event_type) ==
    /\ published < MaxEvents
    /\ event_history' = Recorded(event_history, Event(published + 1))
    /\ published' = published + 1
    /\ lastOp' = DoneWith("publish_event", event_type,
                          IF EventRoutes(event_type) = <<>> THEN "unrouted" ELSE "routed",
                          FALSE, EventRoutes(event_type))
    /\ UNCHANGED <<characters, guidance_context, conversation_flow, last_guidance_age,
                   guidance_callbacks, pc, responding, emitted, situation_type, awaiting,
                   override, status, probe, delivered, emit_age,
                   service_states, running, monitor, processes, launcher>>

(***************************************************************************)
(* ServiceLauncher                                                          *)
(***************************************************************************)
\* start_order of start_all_services
StartOrder == <<"orchestrator", "simviator", "bot_control">>

\* mutant: every service is required
M_Required_Every(service) == TRUE

\* self.services[service_name]['required']
Required(service) == service \in {"orchestrator", "simviator"}

\* How a call of start_service ends:
\*   "started"  the process runs after the two seconds: True
\*   "failed"   the process has exited by then: False, and it stays in the table
\*   "error"    Popen raised: False, and nothing is put in the table
StartOutcomes == {"started", "failed", "error"}

\* self.processes after start_service: a new key goes to the end of the dict
TableAfterStart(table, service, outcome) ==
    IF outcome = "error" \/ service \in SeqRange(table) THEN table
    ELSE Append(table, service)

\* del self.processes[service_name]
TableWithout(table, service) == Filter(table, SeqRange(table) \ {service})

\* a counter of restarts one higher; MaxRestarts stands for MaxRestarts or more
Restarted(n) == Min(n + 1, MaxRestarts)

\* start_all_services, run with --all: the services are started in order;
\* when a required one fails the call returns False and main stops every
\* process, else monitor_services is entered
StartAllServices ==
    /\ launcher.stage = "created"
    /\ \E required \in {"started", "failed"}, optional \in StartOutcomes :
          IF required = "started"
          THEN /\ processes' = TableAfterStart(SubSeq(StartOrder, 1, 2),
                                                StartOrder[3], optional)
               /\ ProcessRuns({"orchestrator", "simviator"}
                                 \cup (IF optional = "started" THEN {"bot_control"} ELSE {}))
               /\ launcher' = [launcher EXCEPT !.stage = "monitoring"]
               /\ lastOp' = DoneWith("start_all_services", "bot_control", optional,
                                     FALSE, <<>>)
          ELSE /\ processes' = <<>>
               /\ launcher' = [launcher EXCEPT !.stage = "stopped"]
               /\ lastOp' = DoneWith("start_all_services", "none", "failed", FALSE, <<>>)
               /\ UNCHANGED <<running, service_states, monitor>>
    /\ UNCHANGED <<characters, guidance_context, conversation_flow, last_guidance_age,
                   guidance_callbacks, pc, responding, emitted, situation_type, awaiting,
                   override, status, probe, delivered, emit_age, event_history, published>>

\* _signal_handler
SignalHandler ==
    /\ launcher.stage = "monitoring"
    /\ launcher.running
    /\ launcher' = [launcher EXCEPT !.running = FALSE]
    /\ lastOp' = DoneWith("signal", "none", "handled", FALSE, <<>>)
    /\ UNCHANGED <<characters, guidance_context, conversation_flow, last_guidance_age,
                   guidance_callbacks, pc, responding, emitted, situation_type, awaiting,
                   override, status, probe, delivered, emit_age, event_history, published,
                   service_states, running, monitor, processes>>

\* a process of the table exits on its own
ProcessExits(service) ==
    /\ launcher.stage = "monitoring"
    /\ service \in SeqRange(processes)
    /\ StopService(service)

\* monitor_services: the sleep between two passes ends; the while condition
\* is tested and the table is copied for the pass, or the loop ends and main
\* stops every process
MonitorPass ==
    /\ launcher.stage = "monitoring"
    /\ launcher.pass = <<>>
    /\ IF launcher.running /\ processes # <<>>
       THEN /\ launcher' = [launcher EXCEPT !.pass = processes]
            /\ lastOp' = DoneWith("monitor_services", "none", "pass", FALSE, <<>>)
            /\ UNCHANGED <<processes, running, monitor>>
       ELSE /\ launcher' = [launcher EXCEPT !.stage = "stopped"]
            /\ processes' = <<>>
            /\ running' = running \ SeqRange(processes)
            /\ monitor' = IF "orchestrator" \in running \cap SeqRange(processes)
                          THEN [monitoring |-> FALSE, at |-> NoLoop] ELSE monitor
            /\ lastOp' = DoneWith("monitor_services", "none", "ended", FALSE, <<>>)
    /\ UNCHANGED <<characters, guidance_context, conversation_flow, last_guidance_age,
                   guidance_callbacks, pc, responding, emitted, situation_type, awaiting,
                   override, status, probe, delivered, emit_age, event_history, published,
                   service_states>>

\* monitor_services: the body of the for loop for the next service of the
\* pass, the call of start_service included
MonitorService ==
    /\ launcher.stage = "monitoring"
    /\ launcher.pass # <<>>
    /\ LET service == Head(launcher.pass) IN
       IF service \in running
       THEN /\ launcher' = [launcher EXCEPT !.pass = Tail(@)]
            /\ lastOp' = DoneWith("monitor_services", service, "alive", FALSE, <<>>)
            /\ UNCHANGED <<processes, running, service_states, monitor>>
       ELSE IF Required(service)
       THEN \E outcome \in StartOutcomes :
            /\ processes' = TableAfterStart(TableWithout(processes, service), service, outcome)
            /\ IF outcome = "started" THEN ProcessRuns({service})
               ELSE UNCHANGED <<running, service_states, monitor>>
            /\ launcher' = [launcher EXCEPT !.pass = Tail(@),
                                            !.restarts[service] = Restarted(@)]
            /\ lastOp' = DoneWith("monitor_services", service, "restart " \o outcome,
                                  FALSE, <<>>)
       ELSE /\ processes' = TableWithout(processes, service)
            /\ launcher' = [launcher EXCEPT !.pass = Tail(@)]
            /\ lastOp' = DoneWith("monitor_services", service, "removed", FALSE, <<>>)
            /\ UNCHANGED <<running, service_states, monitor>>
    /\ UNCHANGED <<characters, guidance_context, conversation_flow, last_guidance_age,
                   guidance_callbacks, pc, responding, emitted, situation_type, awaiting,
                   override, status, probe, delivered, emit_age, event_history, published>>

(***************************************************************************)
(* Specifications                                                          *)
(***************************************************************************)
\* The clock between two calls: a short wait is explored once after the gate
\* clock was restarted, a long wait at any time.
TickStep ==
    \/ last_guidance_age < ShortWait /\ Tick(ShortWait)
    \/ Tick(LongWait)

CycleStep ==
    /\ Len(delivered) < MaxDeliveries
    /\ \E fd \in Snapshots : ProcessFlightSituation(fd, Characters)

EmergencyStep == Len(delivered) < MaxDeliveries /\ HandleEmergencySituation

ForceStep == Len(delivered) < MaxDeliveries /\ \E name \in ForceNames : ForceCharacterGuidance(name)

\* a wait of exactly the character rest time, explored after the gate clock
\* was restarted while every character that spoke is still resting
RestTick ==
    /\ last_guidance_age < ShortWait
    /\ \A c \in Characters : characters[c].last_spoke < CharacterRestSeconds
    /\ Tick(CharacterRestSeconds)

\* cycles only: no emergency and no force-speak call
NextCycles == TickStep \/ RestTick \/ CycleStep \/ PacingWake
SpecCycles == Init /\ [][NextCycles]_vars

Next == TickStep \/ CycleStep \/ PacingWake \/ EmergencyStep \/ ForceStep
Spec == Init /\ [][Next]_vars

\* A long session of one controller: a traffic advisory every five minutes, to
\* which only dublin_control responds, until the history holds LongSession
\* entries.
HistoryTick == Len(conversation_flow) < LongSession /\ Tick(CharacterRestSeconds)

HistoryCycle ==
    /\ Len(conversation_flow) < LongSession
    /\ ProcessFlightSituation(Snapshot(6, 6, FALSE, "takeoff", "B737"), {"dublin_control"})

NextHistory == HistoryTick \/ HistoryCycle
SpecHistory == Init /\ [][NextHistory]_vars

\* Subscribers: up to MaxCallbacks callbacks of any kind register before the
\* first call, then snapshots arrive a long wait apart; emergency and
\* force-speak calls come in between, and the monitor task may be cancelled.
RegisterStep ==
    /\ Len(guidance_callbacks) < MaxCallbacks
    /\ lastOp.op \in {"init", "register"}
    /\ \E kind \in CallbackKinds : AddGuidanceCallback(kind)

SubscriberSnapshots ==
    { Snapshot(0, 0, FALSE, "taxi",    "B737"),
      Snapshot(6, 6, FALSE, "takeoff", "B737") }

\* the characters whose response_likelihood draw succeeds in these runs
SubscriberSpeakers == {"dublin_control", "approach_control"}

SubscriberTick == Tick(LongWait)

SubscriberCycle ==
    /\ Len(delivered) < MaxDispatches
    /\ \E fd \in SubscriberSnapshots : ProcessFlightSituation(fd, SubscriberSpeakers)

SubscriberEmergency == Len(delivered) < MaxDispatches /\ HandleEmergencySituation

SubscriberForce ==
    /\ Len(delivered) < MaxDispatches
    /\ \E name \in ForceNames : ForceCharacterGuidance(name)

NextSubscribers ==
    \/ RegisterStep
    \/ SubscriberTick
    \/ SubscriberCycle
    \/ PacingWake
    \/ CallbackCompletes
    \/ CancelMonitorTask
    \/ SubscriberEmergency
    \/ SubscriberForce
    \/ OverrideCallbackCompletes
SpecSubscribers == Init /\ [][NextSubscribers]_vars

\* the event loop runs every task that can run: a sleep that is over returns,
\* a callback that completes lets the call that awaits it go on
SpecSubscribersFair ==
    /\ SpecSubscribers
    /\ WF_vars(PacingWake)
    /\ WF_vars(CallbackCompletes)
    /\ WF_vars(OverrideCallbackCompletes)

\* Status queries: the status is asked for at any moment of a session of
\* cycles and force-speak calls.
StatusCycle ==
    /\ Len(delivered) < MaxDispatches
    /\ \E fd \in SubscriberSnapshots : ProcessFlightSituation(fd, Characters)

StatusStep == GetCharacterStatus

NextStatus ==
    \/ TickStep
    \/ RestTick
    \/ StatusCycle
    \/ PacingWake
    \/ SubscriberForce
    \/ StatusStep
SpecStatus == Init /\ [][NextStatus]_vars

\* Templates: a character of any personality is registered and speaks.
NextTemplates == RegisterCharacter \/ GenerateTemplateGuidance
SpecTemplates == InitTemplates /\ [][NextTemplates]_vars

\* Transcription: one call of a function of the pronunciation engine.
NextPronunciation ==
    \/ PronounceAltitude
    \/ PronounceHeading
    \/ PronounceSpeed
    \/ PronounceFrequency
    \/ PronounceVisibility
    \/ PronounceTime
    \/ FormatTrafficCall
SpecPronunciation == InitPronunciation /\ [][NextPronunciation]_vars

\* Selection: one call of the selector.
NextSelector == SelectRespondingCharacters
SpecSelector == InitSelector /\ [][NextSelector]_vars

\* Analysis: the context update and the analyzer, as a cycle calls them.
NextAnalysis == UpdateContext \/ AnalyzeSnapshot
SpecAnalysis == InitAnalysis /\ [][NextAnalysis]_vars

\* Services: the processes start and stop, the orchestrator's monitor checks
\* the health of the services it is configured with.
StartStep == \E service \in Services : StartService(service)
StopStep == \E service \in Services : StopService(service)
NextServices ==
    \/ StartStep
    \/ StopStep
    \/ CheckRunningService
    \/ MonitorWakes
SpecServices == Init /\ [][NextServices]_vars

\* the monitoring loop is a task of the event loop: it goes on
SpecServicesFair ==
    SpecServices /\ WF_vars(CheckRunningService) /\ WF_vars(MonitorWakes)

\* Health checks: the orchestrator starts and stops, and its monitor meets
\* any sequence of answers.
StartOrchestrator == StartService("orchestrator")
StopOrchestrator == StopService("orchestrator")
NextHealth ==
    \/ StartOrchestrator
    \/ StopOrchestrator
    \/ CheckAnyResponse
    \/ MonitorWakes
SpecHealth == Init /\ [][NextHealth]_vars

\* Events: the services publish events of any type, one after the other.
NextEvents == \E event_type \in EventTypes : PublishEvent(event_type)
SpecEvents == Init /\ [][NextEvents]_vars

\* Launcher: the services are started with --all and monitored; processes
\* exit at any moment, and a signal may ask the launcher to stop.
ExitStep == \E service \in Services : ProcessExits(service)
NextLauncher ==
    \/ StartAllServices
    \/ ExitStep
    \/ MonitorPass
    \/ MonitorService
    \/ SignalHandler
SpecLauncher == Init /\ [][NextLauncher]_vars

(***************************************************************************)
(* Claims                                                                  *)
(***************************************************************************)
\* the step is a call of process_flight_situation (every action writes lastOp)
IsProcessCall == lastOp'.op = "process"

\* the effective cooldown as the specification states it
StatedCooldown(complexity) == 3 * Max(1, 11 - complexity)

\* how many deliveries are attributed to c
DeliveriesOf(c) == Cardinality({i \in 1..Len(delivered) : delivered[i].character = c})

\* C1: under cycles only, whenever a character emits, its previous emission
\* (if any) lies at least 5 minutes back, and the speakers of a two-speaker
\* cycle are two different characters.
C1_NoRepeatWithinFiveMinutes ==
    [][ /\ Len(delivered') = Len(delivered) + 1 =>
             LET c == delivered'[Len(delivered')].character
             IN  emit_age[c] = NoTime \/ emit_age[c] >= 5 * 60
        /\ Len(responding') = 2 => responding'[1] # responding'[2] ]_vars

\* C1 witness: some character has emitted twice
C1_Witness == \E c \in Characters : characters[c].spoke_count_session >= 2

\* C2 (as claimed): every character a cycle selects has made no emission, on
\* any path, in the 5 minutes before the selection.
C2_NeverSelectedWithinFiveMinutesOfEmission ==
    [][ IsProcessCall =>
            \A c \in SeqRange(lastOp'.selected) :
                emit_age[c] = NoTime \/ emit_age[c] >= 5 * 60 ]_vars

\* C3 (as claimed): a call with an emergency snapshot ends with exactly one
\* emission, from a character of professional_level >= 8.
C3_EmergencySnapshotEmitsOneProfessional ==
    (lastOp.op = "process" /\ guidance_context.emergency_situation) =>
        /\ lastOp.outcome = "emitted"
        /\ Len(lastOp.selected) = 1
        /\ professional_level(lastOp.selected[1]) >= 8

\* C4 (as claimed): the gate never suppresses a call in an emergency context.
C4_GateNeverSuppressesEmergency ==
    (lastOp.op = "process" /\ guidance_context.emergency_situation) =>
        lastOp.outcome # "gated"

\* C5: outside an emergency, a call made when less than
\* base_cooldown * max(1, 11 - complexity_level) has elapsed since
\* last_guidance_time is suppressed and emits nothing.
C5_GateSuppressesBelowEffectiveCooldown ==
    [][ ( /\ IsProcessCall
          /\ ~guidance_context'.emergency_situation
          /\ last_guidance_age < StatedCooldown(guidance_context'.complexity_level) )
        => /\ lastOp'.outcome = "gated"
           /\ delivered' = delivered
           /\ conversation_flow' = conversation_flow ]_vars

\* C5 witness: a call suppressed although the base cooldown had elapsed
C5_Witness ==
    /\ lastOp.op = "process" /\ lastOp.outcome = "gated"
    /\ ~guidance_context.emergency_situation
    /\ last_guidance_age >= 3
    /\ last_guidance_age < StatedCooldown(guidance_context.complexity_level)

\* C6 (as claimed): outside an emergency a call made after the effective
\* cooldown has elapsed is never suppressed.  (A suppressed call leaves
\* last_guidance_age as it was, so the state after the call shows it.)
C6_OnlyTimeAndEmergencySuppress ==
    ( /\ lastOp.op = "process"
      /\ ~guidance_context.emergency_situation
      /\ last_guidance_age >= StatedCooldown(guidance_context.complexity_level) )
    => lastOp.outcome # "gated"

\* C6 (amended): outside an emergency a call made after the effective
\* cooldown has elapsed is suppressed exactly when the gate's random draw
\* fails.
C6_SuppressedExactlyWhenDrawFails ==
    [][ ( /\ IsProcessCall
          /\ ~guidance_context'.emergency_situation
          /\ last_guidance_age >= StatedCooldown(guidance_context'.complexity_level) )
        => (lastOp'.outcome = "gated" <=> ~lastOp'.gate_draw) ]_vars

\* C6 witness: a call suppressed by the random draw alone
C6_Witness ==
    /\ lastOp.op = "process" /\ lastOp.outcome = "gated" /\ ~lastOp.gate_draw
    /\ ~guidance_context.emergency_situation
    /\ last_guidance_age >= StatedCooldown(guidance_context.complexity_level)

\* C7: a cycle selects at most 2 characters, and 2 selected characters differ.
C7_AtMostTwoDistinctSpeakers ==
    \A sel \in {lastOp.selected, responding} :
        /\ Len(sel) <= 2
        /\ Len(sel) = 2 => sel[1] # sel[2]

\* C7 witness: a cycle that selected two characters
C7_Witness == lastOp.op = "process" /\ Len(lastOp.selected) = 2

\* C8 (as claimed): the selector never raises.
C8_SelectorNeverRaises == lastOp.outcome # "raised"

\* C9 (as claimed): the conversation history never holds more than 100 entries.
C9_HistoryWithinCapacity == Len(conversation_flow) <= 100

\* C10 (as claimed): every emission the subscribers received is in the
\* history, and the emitting character's last_spoke and session count show it.
C10_EveryDeliveryRecorded ==
    /\ Len(conversation_flow) = Len(delivered)
    /\ \A i \in 1..Len(delivered) :
           conversation_flow[i].character = delivered[i].character
    /\ \A c \in Characters :
           /\ characters[c].last_spoke = emit_age[c]
           /\ characters[c].spoke_count_session = DeliveriesOf(c)

\* every registered callback returns or raises an Exception when invoked
OnlyReturnOrRaise ==
    \A k \in 1..Len(guidance_callbacks) : guidance_callbacks[k] \in {"returns", "raises"}

\* the step hands a new emission to _output_guidance
IsNewEmission == Len(delivered') = Len(delivered) + 1

\* how many emissions of c the cycles have handed to _output_guidance and seen
\* it return from
DispatchedInCycles(c) ==
    Cardinality({i \in 1..Len(delivered) :
                    /\ delivered[i].character = c
                    /\ delivered[i].via = "cycle"
                    /\ delivered[i].dispatched})

\* how many history entries c has
RecordedOf(c) ==
    Cardinality({i \in 1..Len(conversation_flow) : conversation_flow[i].character = c})

\* C11: when the registered callbacks only return or raise an Exception, every
\* emission invokes every registered callback and its dispatch runs to the
\* end; for an emission of a cycle the character's last_spoke and session
\* count, the history and last_guidance_time are updated in the same step, a
\* cycle of two speakers goes on to its pacing sleep, and the wake-up that
\* follows emits the next speaker.
C11_RaisingSubscriberIsolated ==
    [][ /\ (OnlyReturnOrRaise /\ IsNewEmission) =>
             LET e == delivered'[Len(delivered')]
                 c == e.character
             IN  /\ e.invoked = 1..Len(guidance_callbacks)
                 /\ e.dispatched
                 /\ last_guidance_age' = 0
                 /\ e.via = "cycle" =>
                      /\ characters'[c].last_spoke = 0
                      /\ characters'[c].spoke_count_session =
                             characters[c].spoke_count_session + 1
                      /\ Len(conversation_flow') = Len(conversation_flow) + 1
                      /\ conversation_flow'[Len(conversation_flow')].character = c
                      /\ Len(lastOp'.selected) > 1 =>
                             pc' = "sleeping" /\ responding' = lastOp'.selected
        /\ (OnlyReturnOrRaise /\ pc = "sleeping" /\ emitted < Len(responding)
              /\ lastOp'.op = "wake") =>
             /\ IsNewEmission
             /\ delivered'[Len(delivered')].character = responding[emitted + 1] ]_vars

\* C11 witness: the second speaker of a cycle has emitted to two subscribers,
\* the first of which raises
C11_Witness ==
    /\ Len(guidance_callbacks) = 2
    /\ guidance_callbacks[1] = "raises"
    /\ lastOp.op = "wake" /\ lastOp.outcome = "emitted"
    /\ delivered[Len(delivered)].invoked = {1, 2}
    /\ Len(conversation_flow) = 2

\* C12 (as claimed): a cycle that is suspended in a callback returns in the end.
C12_DispatchingCycleReturns == (pc = "dispatching") ~> (pc = "idle")

\* C13: a character's session count and its history entries never exceed the
\* emissions of that character that the cycles handed to the subscribers and
\* whose dispatch returned, and a character with a last_spoke time has such
\* an emission.
C13_RecordedOnlyAfterDispatch ==
    \A c \in Characters :
        /\ characters[c].spoke_count_session <= DispatchedInCycles(c)
        /\ RecordedOf(c) <= DispatchedInCycles(c)
        /\ characters[c].last_spoke # NoTime => DispatchedInCycles(c) > 0

\* C13 witness: a cycle was abandoned inside the dispatch of an emission
C13_Witness ==
    /\ lastOp.op = "cancel"
    /\ delivered # <<>>
    /\ delivered[Len(delivered)].via = "cycle"
    /\ ~delivered[Len(delivered)].dispatched

\* C14: process_flight_situation is entered only when no cycle is in flight
\* (none suspended in a callback, none in its pacing sleep).
C14_OneSnapshotAtATime ==
    [][ IsProcessCall => (pc = "idle" /\ responding = <<>>) ]_vars

\* C14 witness: a snapshot is processed after a cycle of two speakers, whose
\* emissions lie the pacing delay apart
C14_Witness ==
    /\ lastOp.op = "process"
    /\ Len(delivered) >= 2
    /\ delivered[1].via = "cycle" /\ delivered[2].via = "cycle"
    /\ delivered[1].character # delivered[2].character
    /\ characters[delivered[1].character].last_spoke < CharacterRestSeconds
    /\ characters[delivered[1].character].last_spoke =
           characters[delivered[2].character].last_spoke + 2

\* the first character of the registry, in its order, with professional_level >= 8
FirstRegisteredProfessional ==
    LET idx == {i \in 1..Len(CharOrder) : professional_level(CharOrder[i]) >= 8}
    IN  CharOrder[CHOOSE i \in idx : \A j \in idx : i <= j]

C16_UnknownNameChangesNothing ==
    [][ (lastOp'.op = "force" /\ lastOp'.arg \notin Characters) =>
            /\ lastOp'.outcome = "not_found"
            /\ UNCHANGED <<delivered, emit_age, last_guidance_age, characters,
                           guidance_context, conversation_flow, guidance_callbacks>> ]_vars

\* C16 witness: a not-found call made after some emission
C16_Witness ==
    /\ lastOp.op = "force" /\ lastOp.outcome = "not_found"
    /\ delivered # <<>>

\* C17: a call of force_character_guidance with a registered name hands
\* exactly one emission of that character to the dispatch and returns it,
\* whatever the cooldown clock and the character's last_spoke are.
C17_ForceAlwaysEmits ==
    [][ (lastOp'.op = "force" /\ lastOp'.arg \in Characters) =>
            /\ IsNewEmission
            /\ SubSeq(delivered', 1, Len(delivered)) = delivered
            /\ delivered'[Len(delivered')].character = lastOp'.arg
            /\ delivered'[Len(delivered')].via = "force"
            /\ lastOp'.outcome = "emitted"
            /\ lastOp'.selected = <<lastOp'.arg>> ]_vars

\* C17 witness: a character is forced to speak at the moment it has spoken in
\* a cycle (gate closed, character not rested)
C17_Witness ==
    /\ lastOp.op = "force" /\ lastOp.outcome = "emitted"
    /\ characters[lastOp.arg].last_spoke = 0

\* C18: a call of get_character_status leaves the characters, the context, the
\* history, the callbacks and last_guidance_time as they were.
C18_StatusQueryMutatesNothing ==
    [][ lastOp'.op = "status" =>
            UNCHANGED <<characters, guidance_context, conversation_flow,
                        guidance_callbacks, last_guidance_age>> ]_vars

\* C18 witness: the status was returned with an active character in it
C18_Witness ==
    /\ lastOp.op = "status"
    /\ status # <<>>
    /\ status[1].active_characters # <<>>
    /\ status[1].recent_activity > 0

\* C19 (as claimed): a status query that follows another with no call of
\* process_flight_situation, handle_emergency_situation or
\* force_character_guidance between them returns what the first returned.
C19_StatusQueryRepeatable ==
    [][ (lastOp'.op = "status" /\ status # <<>>) => status' = status ]_vars

\* C20 (as claimed): a character whose personality has no template list is
\* never registered, and a generated message uses a template of the
\* character's own personality.
C20_NoSubstitutedTemplates ==
    probe # <<>> =>
        /\ probe[1].stage # "defined" => probe[1].personality \in TemplatePersonalities
        /\ probe[1].message # <<>> =>
               probe[1].message[1].templates_of = probe[1].personality

\* the call of the probe has ended
Ended(call) == probe # <<>> /\ probe[1].call = call /\ probe[1].stage = "ended"

\* the digit a digit word stands for, and the number a row of digit words spells
DigitWords == {AVIATION_NUMBERS[ch] : ch \in DOMAIN AVIATION_NUMBERS}
WordDigit(w) == CHOOSE ch \in DOMAIN AVIATION_NUMBERS : AVIATION_NUMBERS[ch] = w
AreDigitWords(ws) == \A i \in 1..Len(ws) : ws[i] \in DigitWords
SpokenNumber(ws) == NatOf([i \in 1..Len(ws) |-> WordDigit(ws[i])])

\* the digits of a non-negative number, each spoken on its own
SpokenDigits(n) == [i \in 1..Len(StrNat(n)) |-> AVIATION_NUMBERS[StrNat(n)[i]]]

\* a feet phrase read back: the words before "Thousand", the word before
\* "Hundred", and the words left before "feet"
FeetGroups(text) ==
    LET body == SubSeq(text, 1, Len(text) - 1)
        t == IndexOf(body, "Thousand", 1)
        rest == SubSeq(body, t + 1, Len(body))
        h == IndexOf(rest, "Hundred", 1)
    IN  [thousands |-> SubSeq(body, 1, t - 1),
         hundreds |-> SubSeq(rest, 1, h - 1),
         remainder |-> SubSeq(rest, h + 1, Len(rest))]

IsGroupedFeet(text) ==
    /\ text # <<>> /\ text[Len(text)] = "feet"
    /\ LET g == FeetGroups(text)
       IN  /\ AreDigitWords(g.thousands) /\ AreDigitWords(g.hundreds)
           /\ AreDigitWords(g.remainder)
           /\ Len(g.hundreds) <= 1 /\ Len(g.remainder) <= 2
           /\ Len(g.thousands) + Len(g.hundreds) + Len(g.remainder) > 0

GroupedFeetValue(text) ==
    LET g == FeetGroups(text)
    IN  1000 * SpokenNumber(g.thousands) + 100 * SpokenNumber(g.hundreds)
            + SpokenNumber(g.remainder)

\* C21: pronounce_altitude of an integer gives "Flight Level" and the digits
\* of altitude / 100, each spoken on its own, if and only if the altitude is
\* at least 18000 and a whole multiple of 100; every other altitude that is
\* not negative gives its thousands, hundreds and remainder in groups, ending
\* in "feet"; 3500 gives "Three Thousand Five Hundred feet".
C21_FlightLevelOrGroupedFeet ==
    (Ended("pronounce_altitude") /\ ~probe[1].arg.isstr) =>
        LET altitude == probe[1].arg.n
            said == probe[1].result
            level == altitude >= 18000 /\ altitude % 100 = 0
        IN  /\ level <=> (~said.raised /\ Len(said.text) >= 2
                            /\ SubSeq(said.text, 1, 2) = <<"Flight", "Level">>)
            /\ level => said.text = <<"Flight", "Level">> \o SpokenDigits(altitude \div 100)
            /\ (altitude >= 0 /\ ~level) =>
                   /\ ~said.raised
                   /\ IsGroupedFeet(said.text)
                   /\ GroupedFeetValue(said.text) = altitude
            /\ altitude = 3500 =>
                   said.text = <<"Three", "Thousand", "Five", "Hundred", "feet">>

\* C21 witness: an altitude above 18000 that is no whole hundred was spoken
\* in feet
C21_Witness ==
    /\ Ended("pronounce_altitude")
    /\ probe[1].arg = Number(18050)
    /\ probe[1].result.text = <<"One", "Eight", "Thousand", "Five", "Zero", "feet">>

\* C22: pronounce_heading of any integer gives exactly three digit words,
\* which spell the heading modulo 360 with zeros in front, so headings a
\* whole number of turns apart are spoken alike.
C22_HeadingThreeDigitsMod360 ==
    (Ended("pronounce_heading") /\ ~probe[1].arg.isstr) =>
        LET h == probe[1].arg.n
            said == probe[1].result
        IN  /\ ~said.raised
            /\ Len(said.text) = 3
            /\ AreDigitWords(said.text)
            /\ SpokenNumber(said.text) \in 0..359
            /\ \E k \in -3..3 : h = SpokenNumber(said.text) + 360 * k
            /\ \A k \in -2..2 : pronounce_heading(Number(h + 360 * k)) = said

\* C22 witness: a negative heading was spoken as the heading one turn on
C22_Witness ==
    /\ Ended("pronounce_heading")
    /\ probe[1].arg = Number(-10)
    /\ probe[1].result = Returns(<<"Three", "Five", "Zero">>)
    /\ pronounce_heading(Number(350)) = probe[1].result

\* a time of the shapes the claim accepts: two parts of one or two digits
\* around one colon, or four digits, or three
IsClockTime(clean_time) ==
    LET parts == Split(clean_time, ":")
    IN  \/ /\ Len(parts) = 2
           /\ IsDigits(parts[1]) /\ Len(parts[1]) <= 2
           /\ IsDigits(parts[2]) /\ Len(parts[2]) <= 2
        \/ IsDigits(clean_time) /\ Len(clean_time) \in {3, 4}

\* C23 (as claimed): pronounce_time speaks four digit words and "hours" for a
\* time of the shapes HH:MM, HHMM and HMM, the suffix Z, UTC or GMT removed,
\* and returns every other string as it was given.
C23_TimeSpokenOrUnchanged ==
    (Ended("pronounce_time") /\ probe[1].arg.isstr) =>
        LET said == probe[1].result
        IN  IF IsClockTime(CleanTime(probe[1].arg.s))
            THEN /\ ~said.raised
                 /\ Len(said.text) = 5
                 /\ AreDigitWords(SubSeq(said.text, 1, 4))
                 /\ said.text[5] = "hours"
            ELSE said = Returns(probe[1].arg.s)

\* the six transcription functions
TranscriptionFunctions ==
    {"pronounce_altitude", "pronounce_heading", "pronounce_frequency", "pronounce_speed",
     "pronounce_time", "pronounce_visibility"}

\* C24 (as claimed): no transcription function raises; a string with no
\* digit in it and a negative altitude or speed come back as they were given.
C24_TranscriptionNeverRaises ==
    (probe # <<>> /\ probe[1].stage = "ended"
        /\ probe[1].call \in TranscriptionFunctions) =>
        LET arg == probe[1].arg
            said == probe[1].result
        IN  /\ ~said.raised
            /\ (arg.isstr /\ \A i \in 1..Len(arg.s) : arg.s[i] \notin DOMAIN AVIATION_NUMBERS)
                   => said.text = arg.s
            /\ (~arg.isstr /\ arg.n < 0
                    /\ probe[1].call \in {"pronounce_altitude", "pronounce_speed"})
                   => said.text = Str(arg.n)

\* the words of a traffic call behind its last comma
LastPhrase(text) ==
    LET commas == {i \in 1..Len(text) : text[i] = ","}
        last == CHOOSE i \in commas : \A j \in commas : j <= i
    IN  SubSeq(text, last + 1, Len(text))

\* C25: the altitude phrase of format_traffic_call is the digits of the
\* difference and "feet above" when altitude_diff > 500, the digits of its
\* absolute value and "feet below" when altitude_diff < -500, and
\* "at similar altitude" from -500 to 500, both included.
C25_TrafficAltitudePhrase ==
    Ended("format_traffic_call") =>
        LET diff == probe[1].arg.altitude_diff
            said == probe[1].result
        IN  /\ ~said.raised
            /\ diff > 500 =>
                   LastPhrase(said.text) = SpokenDigits(diff) \o <<"feet", "above">>
            /\ diff < -500 =>
                   LastPhrase(said.text) = SpokenDigits(-diff) \o <<"feet", "below">>
            /\ (diff >= -500 /\ diff <= 500) =>
                   LastPhrase(said.text) = <<"at", "similar", "altitude">>

\* C25 witness: a call with a difference of exactly 500 said "at similar
\* altitude", and so did one with exactly -500
C25_Witness ==
    /\ Ended("format_traffic_call")
    /\ probe[1].arg.altitude_diff \in {500, -500}
    /\ LastPhrase(probe[1].result.text) = <<"at", "similar", "altitude">>
    /\ LastPhrase(format_traffic_call(probe[1].arg.callsign, probe[1].arg.aircraft_type,
                                      probe[1].arg.distance, probe[1].arg.bearing,
                                      -probe[1].arg.altitude_diff).text)
           = <<"at", "similar", "altitude">>

\* C26 (as claimed): the callsign in the text of an emission is the callsign
\* of the snapshot as the transcription engine speaks it, not the field as it
\* came.
C26_EmbedsTranscribedCallsign ==
    (probe # <<>> /\ probe[1].message # <<>>) =>
        CallsignChars(probe[1].message[1].callsign)
            = CallsignPronunciation(CallsignChars(probe[1].callsign)).text

\* C27 (as claimed): a service that runs answers the health check of the
\* orchestrator's monitor with success, so a service that runs while the
\* monitor does is marked healthy in the end (or one of the two stops).
C27_RunningServiceMarkedHealthy ==
    \A s \in MonitoredServices :
        (s \in running /\ monitor.monitoring)
            ~> (service_states[s].status = "healthy"
                    \/ s \notin running \/ ~monitor.monitoring)

(***************************************************************************)
(* The selector's result                                                    *)
(***************************************************************************)
\* the selector's call of the probe has ended
Selected == Ended("_select_responding_characters")

\* eligible: not within the five-minute rest and passed the likelihood draw
Eligible(arg) ==
    {c \in Characters : IsRested(arg.chars[c].last_spoke) /\ c \in arg.passes}

\* the eligible characters of the situation's preference list
PreferredEligible(arg) ==
    Eligible(arg) \cap SeqRange(arg.analysis.character_preferences)

\* the candidate set: the preferred eligible characters, or every eligible
\* character when none is preferred
Candidates(arg) ==
    IF PreferredEligible(arg) = {} THEN Eligible(arg) ELSE PreferredEligible(arg)

Professionals == {c \in Characters : professional_level(c) >= ProfessionalThreshold}

\* C28: whenever the candidate set is not empty the selector returns one or
\* two speakers of the candidate set; a second speaker is there only when the
\* situation type is "routine" and a candidate other than the primary speaker
\* remains (and the 20% draw succeeded), and it is not the primary speaker;
\* in every other case exactly one speaker is selected.
C28_SecondSpeakerOnlyWhenRoutine ==
    (Selected /\ Candidates(probe[1].arg) # {}) =>
        LET arg == probe[1].arg
            sel == probe[1].result.selected
        IN  /\ ~probe[1].result.raised
            /\ Len(sel) \in {1, 2}
            /\ \A i \in 1..Len(sel) : sel[i] \in Candidates(arg)
            /\ Len(sel) = 2 =>
                  /\ arg.analysis.situation_type = "routine"
                  /\ Candidates(arg) \ {sel[1]} # {}
                  /\ sel[2] # sel[1]

\* C29: every selected character is eligible; when some eligible character
\* is in the preference list every selected character is in the list, so a
\* character outside the list is selected only when no eligible one is in it.
C29_SelectedEligibleAndPreferred ==
    Selected =>
        LET arg == probe[1].arg
            sel == probe[1].result.selected
        IN  \A i \in 1..Len(sel) :
                /\ sel[i] \in Eligible(arg)
                /\ PreferredEligible(arg) # {} =>
                      sel[i] \in SeqRange(arg.analysis.character_preferences)

\* C29 witness: an eligible character of the list and an eligible character
\* outside it were both there, and the selector returned two speakers.
C29_Witness ==
    /\ Selected
    /\ PreferredEligible(probe[1].arg) # {}
    /\ Eligible(probe[1].arg) \ PreferredEligible(probe[1].arg) # {}
    /\ Len(probe[1].result.selected) = 2

\* C30: with urgency >= 7 and a professional (professional_level >= 8) in the
\* candidate set, the selector returns exactly one character, a professional.
C30_HighUrgencyOneProfessional ==
    (/\ Selected
     /\ probe[1].arg.analysis.urgency_level >= HighUrgency
     /\ Candidates(probe[1].arg) \cap Professionals # {}) =>
        /\ ~probe[1].result.raised
        /\ Len(probe[1].result.selected) = 1
        /\ probe[1].result.selected[1] \in Professionals

\* C30 witness: a routine situation of urgency >= 7 whose candidate set holds
\* a professional and a character that is none, ended with one professional.
C30_Witness ==
    /\ Selected
    /\ probe[1].arg.analysis.urgency_level >= HighUrgency
    /\ probe[1].arg.analysis.situation_type = "routine"
    /\ Candidates(probe[1].arg) \cap Professionals # {}
    /\ Candidates(probe[1].arg) \ Professionals # {}
    /\ probe[1].result.selected = <<"captain_murphy">>

(***************************************************************************)
(* The pacing of a cycle                                                    *)
(***************************************************************************)
\* the step ends a call of process_flight_situation that emitted: a call with
\* one speaker returns at once, a call with two returns from its last sleep
CycleEnds ==
    /\ pc' = "idle"
    /\ \/ lastOp'.op = "process" /\ lastOp'.outcome = "emitted"
       \/ lastOp'.op = "wake" /\ lastOp'.outcome = "returned"

\* responding_characters of the call that the step ends
EndingSpeakers == IF pc = "idle" THEN lastOp'.selected ELSE responding

\* C31: when a cycle that emitted ends, last_guidance_time is the time of the
\* first emission of that cycle, with one speaker and with two.
C31_LastGuidanceIsFirstEmission ==
    [][CycleEnds => last_guidance_age' = emit_age'[EndingSpeakers[1]]]_vars

\* C32: the cycle is in its pacing delay only with two speakers selected and
\* only between the first and the second emission: a single speaker has no
\* delay, and no delay follows the last emission.
C32_OnePacingDelayBetweenEmissions ==
    pc = "sleeping" => (Len(responding) = 2 /\ emitted = 1)

(***************************************************************************)
(* The context and the analysis of a snapshot                               *)
(***************************************************************************)
\* the probe's snapshot went through the context update / the analyzer
Updated == probe # <<>> /\ probe[1].call = "process_flight_situation"
               /\ probe[1].stage \in {"updated", "analysed"}
Analysed == probe # <<>> /\ probe[1].call = "process_flight_situation"
               /\ probe[1].stage = "analysed"

\* the complexity as the formula states it, without the cap
StatedComplexity(fd) ==
    1 + (IF fd.traffic_count \div 2 < 3 THEN fd.traffic_count \div 2 ELSE 3)
      + (IF fd.emergency THEN 4 ELSE 0)
      + (IF fd.weather_severity > 5 THEN 2 ELSE 0)

\* C33: after the context update from a snapshot with traffic_count >= 0 the
\* complexity_level is 1 + min(traffic_count // 2, 3) + 4 if emergency + 2 if
\* weather_severity > 5, and lies between 1 and 10: the cap lowers nothing.
C33_ComplexityFormulaWithinRange ==
    (Updated /\ probe[1].arg.traffic_count >= 0) =>
        /\ guidance_context.complexity_level = StatedComplexity(probe[1].arg)
        /\ guidance_context.complexity_level \in 1..10

\* C33 witness: the update of an emergency snapshot in heavy traffic and bad
\* weather, where the formula reaches 10.
C33_Witness ==
    /\ Updated
    /\ probe[1].arg.traffic_count >= 6
    /\ probe[1].arg.emergency
    /\ probe[1].arg.weather_severity > 5
    /\ guidance_context.complexity_level = 10

Controllers == {"dublin_control", "approach_control"}

\* C34: the analysis is a "traffic_advisory" with urgency >= 3 and both
\* controllers in the preference list exactly when traffic_density > 3; every
\* other analysis is "routine" with urgency 1.
C34_TrafficAdvisoryExactlyAboveThree ==
    Analysed =>
        LET analysis == probe[1].result
            advisory == /\ analysis.situation_type = "traffic_advisory"
                        /\ analysis.urgency_level >= 3
                        /\ Controllers \subseteq SeqRange(analysis.character_preferences)
        IN  /\ advisory <=> guidance_context.traffic_density > 3
            /\ ~advisory => /\ analysis.situation_type = "routine"
                            /\ analysis.urgency_level = 1

\* C34 witness: analyses on both sides of the threshold are reached with a
\* controller in the preference list: four aircraft make a traffic advisory,
\* three aircraft at takeoff stay routine.
C34_Witness ==
    /\ Analysed
    /\ probe[1].arg.phase = "takeoff"
    /\ \/ probe[1].arg.traffic_count = 4 /\ probe[1].result.situation_type = "traffic_advisory"
       \/ probe[1].arg.traffic_count = 3 /\ probe[1].result.situation_type = "routine"

\* C35: the urgency of every analysis is 1 or 3, also for an emergency
\* snapshot, so the selector's test urgency >= 7 fails for the analysis a
\* cycle hands to it.
C35_AnalyzerUrgencyBelowHighBranch ==
    Analysed =>
        /\ probe[1].result.urgency_level \in {1, 3}
        /\ ~(probe[1].result.urgency_level >= HighUrgency)

\* C35 witness: the analysis of an emergency snapshot in heavy traffic has
\* urgency 3.
C35_Witness ==
    /\ Analysed
    /\ probe[1].arg.emergency
    /\ guidance_context.complexity_level = 10
    /\ probe[1].result.urgency_level = 3

(***************************************************************************)
(* Counters, history and the calls outside a cycle                          *)
(***************************************************************************)
\* the sum of spoke_count_session over the characters of a list
RECURSIVE SessionTotal(_)
SessionTotal(names) ==
    IF names = <<>> THEN 0
    ELSE characters[Head(names)].spoke_count_session + SessionTotal(Tail(names))

\* C36: at every moment of a session of cycles, emergency calls and
\* force-speak calls the characters' spoke_count_session add up to the number
\* of history entries, and a character has a last_spoke exactly when its
\* spoke_count_session is above 0.
C36_CountsMatchHistory ==
    /\ SessionTotal(CharOrder) = Len(conversation_flow)
    /\ \A c \in Characters :
          characters[c].last_spoke # NoTime <=> characters[c].spoke_count_session > 0

\* C36 witness: a cycle recorded two speakers and an emergency or force-speak
\* emission was made besides.
C36_Witness ==
    /\ Len(conversation_flow) = 2
    /\ Len(delivered) = 3
    /\ \E c \in Characters : characters[c].spoke_count_session = 0

\* the step takes the emission of an emergency or force-speak call through
\* _output_guidance to its end, at once or after a callback that waited
OverrideEmits ==
    /\ lastOp'.op \in {"emergency", "force", "resume_emergency", "resume_force"}
    /\ lastOp'.outcome = "emitted"

\* C37: an emission of handle_emergency_situation or force_character_guidance
\* sets last_guidance_time to now, which closes the gate for a cycle that
\* follows at once; it leaves every last_spoke and spoke_count_session and the
\* history as they were, and force_character_guidance leaves the context too.
C37_OverrideRestartsGateOnly ==
    [][OverrideEmits =>
          /\ last_guidance_age' = 0
          /\ GateOutcome(guidance_context', last_guidance_age', TRUE) = "cooldown"
          /\ characters' = characters
          /\ conversation_flow' = conversation_flow
          /\ lastOp'.op \in {"force", "resume_force"} =>
                guidance_context' = guidance_context]_vars

\* C37 witness: a force-speak emission was made while the gate's clock stood
\* past every cooldown and some character had spoken in a cycle.
C37_Witness ==
    /\ lastOp.op = "force"
    /\ lastOp.outcome = "emitted"
    /\ last_guidance_age = 0
    /\ conversation_flow # <<>>
    /\ \E c \in Characters : characters[c].last_spoke = AgeCap

(***************************************************************************)
(* Health notifications                                                     *)
(***************************************************************************)
\* the step is a health check that called the health callbacks
HealthNotified ==
    /\ lastOp'.op = "check"
    /\ lastOp'.outcome \in {"notified", "warned"}

\* C38: the health callbacks are called only by a check that changes the
\* service's status; every notification of an "unhealthy" status carries
\* consecutive_failures = 1, and the orchestrator's warning for three or more
\* consecutive failures is never logged.
C38_UnhealthyNotifiedAtFirstFailure ==
    [][/\ HealthNotified =>
            /\ service_states'[lastOp'.arg].status # service_states[lastOp'.arg].status
            /\ service_states'[lastOp'.arg].status = "unhealthy" =>
                   service_states'[lastOp'.arg].consecutive_failures = 1
       /\ lastOp'.outcome # "warned"]_vars

\* C38 witness: a service that failed before and recovered fails again and
\* the callbacks are told; elsewhere a service stands at three or more
\* consecutive failures.
C38_Witness ==
    /\ lastOp.op = "check"
    /\ lastOp.outcome = "notified"
    /\ service_states[lastOp.arg].status = "unhealthy"
    /\ service_states[lastOp.arg].succeeded
    /\ service_states[lastOp.arg].total_failures >= 2
    /\ \E s \in MonitoredServices : service_states[s].consecutive_failures >= WarnFailures

(***************************************************************************)
(* The event history                                                        *)
(***************************************************************************)
\* C39: after any number of publish_event calls the history holds at most
\* 100 events, and they are the most recently published ones in the order of
\* their publication: all of them while no more than 100 were published.
C39_HistoryKeepsLatestHundred ==
    /\ Len(event_history) <= 100
    /\ Len(event_history) = (IF published < 100 THEN published ELSE 100)
    /\ \A i \in 1..Len(event_history) :
          event_history[i].seq = published - Len(event_history) + i

\* C39 witness: more than 100 events were published and the history starts
\* with the event published 99 events before the last.
C39_Witness ==
    /\ published > 101
    /\ Len(event_history) = 100
    /\ event_history[1].seq = published - 99

(***************************************************************************)
(* The launcher's monitor loop                                              *)
(***************************************************************************)
\* the services the launcher is configured to require
RequiredServices == {"orchestrator", "simviator"}

\* the step is the monitor loop finding that the process of the next service
\* of its pass has exited
FindsExited ==
    /\ launcher.stage = "monitoring"
    /\ launcher.pass # <<>>
    /\ Head(launcher.pass) \notin running
    /\ lastOp'.op = "monitor_services"
    /\ lastOp'.arg = Head(launcher.pass)

\* C40: when the monitor loop finds the process of a service exited, a
\* required service is restarted in the same step of the pass, however often
\* it was restarted before, and its entry is the one start_service left; a
\* service that is not required leaves the table, and the loop never restarts
\* it or puts it back.
C40_ExitedRequiredRestartedOthersDropped ==
    [][/\ FindsExited =>
            LET service == Head(launcher.pass) IN
            IF service \in RequiredServices
            THEN /\ lastOp'.outcome \in {"restart started", "restart failed", "restart error"}
                 /\ launcher'.restarts[service] >= launcher.restarts[service]
                 /\ launcher'.restarts[service] > 0
                 /\ service \in SeqRange(processes') <=> lastOp'.outcome # "restart error"
                 /\ service \in running' <=> lastOp'.outcome = "restart started"
            ELSE /\ lastOp'.outcome = "removed"
                 /\ service \notin SeqRange(processes')
                 /\ service \notin running'
       /\ \A service \in Services \ RequiredServices :
            /\ launcher'.restarts[service] = 0
            /\ (launcher.stage = "monitoring" /\ service \notin SeqRange(processes))
                  => (service \notin SeqRange(processes') /\ service \notin running')]_vars

\* C40 witness: the loop restarted simviator in two passes or more and has
\* just dropped bot_control from the table.
C40_Witness ==
    /\ launcher.restarts["simviator"] >= 2
    /\ lastOp.op = "monitor_services"
    /\ lastOp.arg = "bot_control"
    /\ lastOp.outcome = "removed"
    /\ "bot_control" \notin SeqRange(processes)

====
